---- MODULE Spec2Model ----
(***************************************************************************)
(* Model of ont_fast5_api: the read-subset / demultiplex scheduler          *)
(* (conversion_tools/fast5_subset.py, conversion_utils.py, demux_fast5.py), *)
(* the extraction unit extract_selected_reads, and the metadata hardlinking *)
(* of MultiFast5File (multi_fast5.py, fast5_read.py).                       *)
(***************************************************************************)
EXTENDS Integers, Sequences, FiniteSets, TLC

\* ------------------------------------------------------------------ bounds
NumReads == 2
NumFiles == 3
MaxCorrupt == 1
NumIds == 3
NumRuns == 2
MaxOps == 3
NumNumbers == 2
NumSamples == 2
MaxFileOps == 3
MaxAnaOps == 4
MaxOldLines == 2
MaxUnits == 3
MaxLines == 2
NumBins == 2
NumGroups == 3
NumComponents == 2

Reads == 1..NumReads
InFiles == 1..NumFiles
\* the None of the code: no input file (file ids start at 1)
None == 0
ReadIds == 1..NumIds
RunIds == 1..NumRuns
ReadNumbers == 1..NumNumbers
Samples == 1..NumSamples

VARIABLES
    \* --- subset / demultiplex run
    variant,              \* "subset": fast5_subset.Fast5Filter; "demux": Fast5Demux with one Fast5FilterWorker
    batch_size,
    threads,
    requested,            \* the read ids of the read list file, as parsed
    loc,                  \* read id -> input file holding it (None: in no input file)
    read_set,             \* self.read_set (for demux also read_sets[demux]: the same set object)
    input_f5s,            \* self.input_f5s, a list
    available_out_files,  \* self.available_out_files, a list
    out_files,            \* self.out_files: output slot -> set of read ids
    disk,                 \* the reads physically present in every output file
    tasks,                \* len(self.tasks)
    pool,                 \* the pool's task queue: submitted, not yet completed units, oldest first
    lost,                 \* units that raised in a worker and for which no callback ran
    pc,                   \* position of the main thread and of the pool's result-handler thread
    l_out,                \* per thread: out_file popped by _args_generator
    exc,                  \* the exception that left run_batch on the main thread
    corrupt,              \* the read ids whose group in its input file cannot be read
    pbar,                 \* self.pbar.currval, the value of the progress bar
    \* --- one call of extract_selected_reads
    e_in,                 \* the read ids in the input file
    e_present,            \* the read ids in the output file before the call
    e_read_set,           \* the argument read_set
    e_count,              \* the argument count
    e_res,                \* the call's result
    e_input_f5s,          \* self.input_f5s of the worker the unit belongs to (file "in": the unit's input)
    e_pc,                 \* "call": not yet called; "returned"; "updated" / "failed": its callback / error callback has run
    \* --- one MultiFast5File opened for writing
    m_reads,              \* the read ids that have a read_<id> group in self.handle
    m_run_attr,           \* read id -> attrs["run_id"] of its group
    m_link,               \* read id -> hardlinkable group name -> the storage object the name refers to
    m_attrs,              \* storage object -> its attributes
    m_built,              \* self._run_id_map is not None
    m_map,                \* self._run_id_map: run id -> read id
    m_origin,             \* read id -> the call that made its group
    m_call,               \* the last call and how it ended
    m_ops,                \* number of calls made
    \* --- one fast5 file and the object opened on it
    f_kind,               \* "Fast5File" (single read format) or "MultiFast5File"
    f_mode,               \* self.mode of the container object
    f_handle,             \* self.handle of the container object
    f_is_open,            \* self._is_open, the attribute of a Fast5File
    f_disk,               \* the read groups of the file: read number (read id) -> group
    f_written,            \* the metadata and analysis groups written through the object
    f_status,             \* self.status of a Fast5File: read_info, read_number_map, read_id_map
    f_read,               \* the Fast5Read last produced by the MultiFast5File
    f_call,               \* the last call and how it ended
    f_ops,                \* number of calls made
    \* --- the analysis groups of one read
    a_groups,             \* the names of the groups under Analyses
    a_call,               \* the last call and what it returned
    a_ops,                \* number of calls made
    \* --- one copy of a read into an output file
    c_fn,                 \* the function called
    c_groups,             \* the subtrees of the source read
    c_filters,            \* the filters of the source's Raw Signal dataset
    c_target,             \* the argument target_compression
    c_sanitize,           \* the argument sanitize
    c_map,                \* what run_id_map of the output file holds for the source's run
    c_res,                \* the subtrees of the output read, the path taken for Raw, the error
    c_pc,                 \* "call": not yet called; "returned"
    \* --- one compress_batch run
    z_in_place,           \* the argument in_place
    z_threads,            \* the argument threads
    z_bad,                \* the input files compress_file fails on
    z_input,              \* input file -> what its path holds: "original" or "compressed"
    z_output,             \* input file -> state of its output_path: "absent", "partial", "complete"
    z_task,               \* input file -> state of its compress_file task
    z_pc,                 \* position of compress_batch
    \* --- filename_mapping.txt of one batch run
    t_tool,               \* the tool that runs
    t_exists,             \* whether output_folder/filename_mapping.txt exists
    t_table,              \* its lines, each "old" (there before the run) or "new"
    t_written,            \* number of lines the run has written
    t_left,               \* units of work whose callback has not run yet
    t_pc,                 \* position of the run
    \* --- update_legacy_file on one legacy file
    u_file,               \* the file on disk
    u_before,             \* status = Fast5Info(fname) at the start of update_legacy_file
    u_after,              \* Fast5Info(fname) after it
    u_err,                \* how update_legacy_file ended
    u_first,              \* the file as the first update_legacy_file left it
    u_again,              \* how a second update_legacy_file on the file ended
    u_pc,                 \* position
    d_threads,            \* demux_fast5: the threads argument
    d_batch,              \* batch_size
    d_bin,                \* the summary file: the bin (demultiplex value) of each read
    d_loc,                \* the input file that holds each read, or None
    d_started,            \* the bins whose worker has been given the pool (worker.run_batch(pool=pool))
    d_read_set,           \* per bin: worker.read_set
    d_input,              \* per bin: worker.input_f5s
    d_avail,              \* per bin: worker.available_out_files
    d_out,                \* per bin and slot: worker.out_files
    d_tasks,              \* per bin: len(worker.tasks)
    d_pool,               \* the units submitted to the shared pool and not yet completed, oldest first
    d_pc,                 \* the main thread of Fast5Demux.run_batch: "launch", "wait", "done"
    h_attrs,              \* per analysis group and attribute name: the group the value 'Analyses/<group>' names, or None
    h_component,          \* the component name of the queried group
    h_chain,              \* get_chain: chain
    h_check,              \* get_chain: groups_to_check
    h_pc                  \* "call", "loop", "returned"

sched_vars == <<variant, batch_size, threads, requested, loc, read_set, input_f5s,
                available_out_files, out_files, disk, tasks, pool, lost, pc, l_out, exc, corrupt, pbar>>

extract_vars == <<e_in, e_present, e_read_set, e_count, e_res, e_input_f5s, e_pc>>
container_vars == <<m_reads, m_run_attr, m_link, m_attrs, m_built, m_map>>
multi_vars == <<container_vars, m_origin, m_call, m_ops>>
\* the parts added for the file API, the analyses, the copy of a read, the
\* in-place compression and the mapping log
file_vars == <<f_kind, f_mode, f_handle, f_is_open, f_disk, f_written, f_status, f_read, f_call, f_ops>>
ana_vars == <<a_groups, a_call, a_ops>>
chain_vars == <<h_attrs, h_component, h_chain, h_check, h_pc>>
demux_vars == <<d_threads, d_batch, d_bin, d_loc, d_started, d_read_set, d_input, d_avail,
                d_out, d_tasks, d_pool, d_pc>>
legacy_vars == <<u_file, u_before, u_after, u_err, u_first, u_again, u_pc>>
table_vars == <<t_tool, t_exists, t_table, t_written, t_left, t_pc>>
zip_vars == <<z_in_place, z_threads, z_bad, z_input, z_output, z_task, z_pc>>
copy_vars == <<c_fn, c_groups, c_filters, c_target, c_sanitize, c_map, c_res, c_pc>>
rest_vars == <<file_vars, ana_vars, copy_vars, zip_vars, table_vars, legacy_vars, demux_vars, chain_vars>>
\* what a step of one part leaves alone
not_file_vars == <<sched_vars, extract_vars, multi_vars, ana_vars, copy_vars, zip_vars, table_vars, legacy_vars, demux_vars, chain_vars>>
not_ana_vars == <<sched_vars, extract_vars, multi_vars, file_vars, copy_vars, zip_vars, table_vars, legacy_vars, demux_vars, chain_vars>>
not_copy_vars == <<sched_vars, extract_vars, multi_vars, file_vars, ana_vars, zip_vars, table_vars, legacy_vars, demux_vars, chain_vars>>
not_zip_vars == <<sched_vars, extract_vars, multi_vars, file_vars, ana_vars, copy_vars, table_vars, legacy_vars, demux_vars, chain_vars>>
not_table_vars == <<sched_vars, extract_vars, multi_vars, file_vars, ana_vars, copy_vars, zip_vars, legacy_vars, demux_vars, chain_vars>>
not_legacy_vars == <<sched_vars, extract_vars, multi_vars, file_vars, ana_vars, copy_vars, zip_vars, table_vars, demux_vars, chain_vars>>
not_demux_vars == <<sched_vars, extract_vars, multi_vars, file_vars, ana_vars, copy_vars, zip_vars, table_vars, legacy_vars, chain_vars>>
not_chain_vars == <<sched_vars, extract_vars, multi_vars, file_vars, ana_vars, copy_vars, zip_vars, table_vars, legacy_vars, demux_vars>>
vars == <<sched_vars, extract_vars, multi_vars, rest_vars>>

Threads == {"main", "cb"}

\* ------------------------------------------------------------------ helpers
Last(s) == s[Len(s)]
Front(s) == SubSeq(s, 1, Len(s) - 1)
Min2(a, b) == IF a < b THEN a ELSE b
RemoveAt(s, i) == SubSeq(s, 1, i - 1) \o SubSeq(s, i + 1, Len(s))

\* the division rounded down instead of up
CeilDiv_floor(n, b) == n \div b
\* int(ceil(n / float(b)))
CeilDiv(n, b) == (n + b - 1) \div b

\* the read ids stored in input file f
FileReads(f) == {r \in Reads : loc[r] = f}

\* ------------------------------------------------------------------ extract_selected_reads
\* (a return that never hands the input file back)
Ok_exhausted(found, present, in_left) ==
    [kind |-> "ok", found |-> found, present |-> present, in_left |-> FALSE]
\* return found_reads, output_file, input_file or None
Ok(found, present, in_left) ==
    [kind |-> "ok", found |-> found, present |-> present, in_left |-> in_left]
\* the unit raised; present: what it had written to the output file by then
Raised(present) ==
    [kind |-> "raise", found |-> {}, present |-> present, in_left |-> FALSE]

\* the test with > in place of >=
CountReached_late(found, count) == Cardinality(found) > count
\* if len(found_reads) >= count: the loop returns the input file
CountReached(found, count) == Cardinality(found) >= count

\* The loop of extract_selected_reads over the reads of read_generator, which
\* come in the iteration order of a set: every order is possible.
\*   todo     the reads read_generator has not yielded yet
\*   bad      the reads of the input file that cannot be read: get_read or
\*            add_existing_read raises, the latter possibly after it has
\*            created the read's group in the output file
RECURSIVE ExtractLoop(_, _, _, _, _)
ExtractLoop(todo, found, present, count, bad) ==
    IF todo = {}
    THEN {Ok(found, present, FALSE)}
    ELSE UNION {
        IF r \in bad
        THEN {Raised(present)} \cup (IF r \in present THEN {} ELSE {Raised(present \cup {r})})
        ELSE LET found2 == found \cup {r} IN
             IF r \in present
             THEN ExtractLoop(todo \ {r}, found2, present, count, bad)
             ELSE LET present2 == present \cup {r} IN
                  IF CountReached(found2, count)
                  THEN {Ok(found2, present2, TRUE)}
                  ELSE ExtractLoop(todo \ {r}, found2, present2, count, bad)
        : r \in todo }

\* every read of the input file, whether asked for or not
Matching_all(rs, in_reads) == in_reads
\* read_generator: read_set.intersection(read_ids)
Matching(rs, in_reads) == rs \cap in_reads

\* extract_selected_reads(input_file, output_file, read_set, count): the set
\* of its possible outcomes; in_reads and present are the reads of the input
\* file and of the output file before the call.
extract_selected_reads(in_reads, present, rs, count, bad) ==
    ExtractLoop(Matching(rs, in_reads), {}, present, count, bad)

\* ------------------------------------------------------------------ construction
NumOutputs == CeilDiv(Cardinality(requested), batch_size)
OutSlots == 0..(NumOutputs - 1)

\* Fast5Filter.__init__: num_workers; Fast5Demux.calculate_max_threads for one bin
num_workers == Min2(threads, Min2(NumOutputs, NumFiles))

\* Fast5Filter.run_batch / Fast5Demux.run_batch: which mode runs
IsAsync == num_workers > 1

\* out_file_names[::-1] / sorted(..., reverse=True): lowest index is popped first
ReversedSlots(n) == [i \in 1..n |-> n - i]

\* ------------------------------------------------------------------ MultiFast5File: the container
\* static_data.HARDLINK_GROUPS, in the order create_empty_read walks it
HARDLINK_GROUPS == <<"context_tags", "tracking_id">>
Groups == {HARDLINK_GROUPS[i] : i \in 1..Len(HARDLINK_GROUPS)}
NoLinks == [g \in Groups |-> None]

\* the call recorded in m_call
Call(op, read_id, err) == [op |-> op, read |-> read_id, err |-> err]

\* a new file opened for writing: no read group, _run_id_map = None.  A
\* storage object is named by the read under which it was created; the
\* attributes of a metadata group are reduced to its run_id entry (None: the
\* group has no such attribute).
EmptyContainer ==
    /\ m_reads = {}
    /\ m_run_attr = [r \in ReadIds |-> None]
    /\ m_link = [r \in ReadIds |-> NoLinks]
    /\ m_attrs = [r \in ReadIds |-> NoLinks]
    /\ m_built = FALSE
    /\ m_map = [R \in RunIds |-> None]
    /\ m_origin = [r \in ReadIds |-> "none"]
    /\ m_call = Call("open", None, "ok")
    /\ m_ops = 0

\* ------------------------------------------------------------------ one fast5 file: data
\* the h5py objects self.handle can be, and what repr() prints for them
Repr(handle) ==
    CASE handle = "File" -> "<HDF5 file (mode)>"
      [] handle = "ClosedFile" -> "<Closed HDF5 file>"
      [] handle = "Group" -> "<HDF5 group (members)>"
      [] handle = "ClosedGroup" -> "<Closed HDF5 group>"
      [] handle = "None" -> "None"

\* a read group of the file (Raw/Reads/Read_<n> of a single read file,
\* read_<id> of a multi read file): its read_id attribute, whether it has a
\* Raw group (multi read files) and the samples of its Signal dataset
NoGroup == [present |-> FALSE, read_id |-> None, raw |-> FALSE, signal |-> None]
ReadGroup(read_id, raw, signal) ==
    [present |-> TRUE, read_id |-> read_id, raw |-> raw, signal |-> signal]

\* ReadInfo: the fields the catalog's users read
ReadInfo(read_number, read_id) ==
    [read_number |-> read_number, read_id |-> read_id, has_raw_data |-> FALSE]

\* d[k] = v on a dict
DictSet(d, k, v) == [x \in (DOMAIN d) \cup {k} |-> IF x = k THEN v ELSE d[x]]

NoStatus == [read_info |-> <<>>, read_number_map |-> <<>>, read_id_map |-> <<>>]

\* self.read_info.append(read_info); n = len - 1; both maps take n
Register(status, read_info) ==
    [read_info |-> Append(status.read_info, read_info),
     read_number_map |-> DictSet(status.read_number_map, read_info.read_number, Len(status.read_info)),
     read_id_map |-> DictSet(status.read_id_map, read_info.read_id, Len(status.read_info))]

\* Fast5Info(fname) on a file of the current version: the loop over the
\* groups of Raw/Reads, in name order
RECURSIVE ScanLoop(_, _, _)
ScanLoop(groups, n, status) ==
    IF n > NumNumbers THEN status
    ELSE IF ~groups[n].present THEN ScanLoop(groups, n + 1, status)
    ELSE ScanLoop(groups, n + 1,
                  Register(status, [ReadInfo(n, groups[n].read_id)
                                       EXCEPT !.has_raw_data = groups[n].signal # None]))
Fast5Info(groups) == ScanLoop(groups, 1, NoStatus)

\* no Fast5Read has been produced
NoRead == [made |-> FALSE, read |-> None, mode |-> "None", handle |-> "None"]
\* Fast5Read(parent, read_id): mode and handle are taken at construction
Fast5Read(read_id, mode) == [made |-> TRUE, read |-> read_id, mode |-> mode, handle |-> "Group"]

\* the call recorded in f_call
FileCall(op, arg, data, err) == [op |-> op, arg |-> arg, data |-> data, err |-> err]

NoFile ==
    /\ f_kind = "Fast5File" /\ f_mode = "None" /\ f_handle = "None" /\ f_is_open = FALSE
    /\ f_disk = None /\ f_written = {} /\ f_status = None
    /\ f_read = None /\ f_call = None /\ f_ops = 0

\* a group name is the sequence of its characters; the empty name stands for
\* the None that get_latest_analysis returns
NoName == <<>>
AnaCall(op, base, increment, result) ==
    [op |-> op, base |-> base, increment |-> increment, result |-> result]
NoAna == a_groups = {} /\ a_call = None /\ a_ops = 0

\* target_compression=None
NoCompression == [name |-> "None", compression |-> "None", compression_opts |-> <<>>]
\* run_id_map without (entry = FALSE) or with an entry for a run, and the
\* hardlinkable groups the read of the entry has
MapEntry(entry, has) == [entry |-> entry, has |-> has]
CopyResult(out, raw, err) == [out |-> out, raw |-> raw, err |-> err]
NoCopy ==
    /\ c_fn = "none" /\ c_groups = {} /\ c_filters = {} /\ c_target = None
    /\ c_sanitize = FALSE /\ c_map = None /\ c_res = None
    /\ c_pc = "call"

NoZip ==
    /\ z_in_place = FALSE /\ z_threads = 1 /\ z_bad = {}
    /\ z_input = None /\ z_output = None /\ z_task = None /\ z_pc = "returned"

NoTable ==
    /\ t_tool = "Fast5FilterWorker" /\ t_exists = FALSE /\ t_table = <<>>
    /\ t_written = 0 /\ t_left = 0 /\ t_pc = "returned"

NoChain ==
    /\ h_attrs = None /\ h_component = None /\ h_chain = <<>> /\ h_check = <<>> /\ h_pc = "returned"

NoDemux ==
    /\ d_threads = 1 /\ d_batch = 1 /\ d_bin = None /\ d_loc = None /\ d_started = {}
    /\ d_read_set = None /\ d_input = None /\ d_avail = None /\ d_out = None
    /\ d_tasks = None /\ d_pool = <<>> /\ d_pc = "done"

NoLegacy ==
    /\ u_file = None /\ u_before = None /\ u_after = None /\ u_err = "ok"
    /\ u_first = None /\ u_again = "none" /\ u_pc = "none"

\* the variables of a part of the model that a specification does not use
NoExtractCall ==
    /\ e_in = {} /\ e_present = {} /\ e_read_set = {} /\ e_count = 1
    /\ e_res = Ok({}, {}, FALSE) /\ e_input_f5s = <<>> /\ e_pc = "call"
NoRun ==
    /\ variant = "subset" /\ batch_size = 1 /\ threads = 1 /\ requested = {}
    /\ loc = [r \in Reads |-> None] /\ read_set = {} /\ input_f5s = <<>>
    /\ available_out_files = <<>> /\ out_files = <<>> /\ disk = <<>>
    /\ tasks = 0 /\ pool = <<>> /\ lost = {}
    /\ pc = [t \in Threads |-> "done"] /\ l_out = [t \in Threads |-> -1]
    /\ exc = "none" /\ corrupt = {} /\ pbar = 0

\* the added parts, pinned
NoRest == NoFile /\ NoAna /\ NoCopy /\ NoZip /\ NoTable /\ NoLegacy /\ NoDemux /\ NoChain
NoRestButFile == NoRun /\ NoExtractCall /\ EmptyContainer /\ NoAna /\ NoCopy /\ NoZip /\ NoTable /\ NoLegacy /\ NoDemux /\ NoChain
NoRestButAna == NoRun /\ NoExtractCall /\ EmptyContainer /\ NoFile /\ NoCopy /\ NoZip /\ NoTable /\ NoLegacy /\ NoDemux /\ NoChain
NoRestButCopy == NoRun /\ NoExtractCall /\ EmptyContainer /\ NoFile /\ NoAna /\ NoZip /\ NoTable /\ NoLegacy /\ NoDemux /\ NoChain
NoRestButZip == NoRun /\ NoExtractCall /\ EmptyContainer /\ NoFile /\ NoAna /\ NoCopy /\ NoTable /\ NoLegacy /\ NoDemux /\ NoChain
NoRestButTable == NoRun /\ NoExtractCall /\ EmptyContainer /\ NoFile /\ NoAna /\ NoCopy /\ NoZip /\ NoLegacy /\ NoDemux /\ NoChain
NoRestButLegacy == NoRun /\ NoExtractCall /\ EmptyContainer /\ NoFile /\ NoAna /\ NoCopy /\ NoZip /\ NoTable /\ NoDemux /\ NoChain
NoRestButDemux == NoRun /\ NoExtractCall /\ EmptyContainer /\ NoFile /\ NoAna /\ NoCopy /\ NoZip /\ NoTable /\ NoLegacy /\ NoChain
NoRestButChain == NoRun /\ NoExtractCall /\ EmptyContainer /\ NoFile /\ NoAna /\ NoCopy /\ NoZip /\ NoTable /\ NoLegacy /\ NoDemux

Init ==
    /\ NoExtractCall
    /\ NoRest
    /\ EmptyContainer
    /\ variant \in {"subset", "demux"}
    /\ batch_size \in 1..NumReads
    /\ threads \in 1..NumFiles
    /\ \E n \in 1..NumReads : requested = 1..n
    /\ loc \in [Reads -> {None} \cup InFiles]
    /\ \A r \in Reads \ requested : loc[r] = None
    /\ \A r \in requested : \A q \in requested : r < q => loc[r] <= loc[q]
    /\ read_set = requested
    /\ input_f5s = [i \in 1..NumFiles |-> i]
    /\ available_out_files = ReversedSlots(CeilDiv(Cardinality(requested), batch_size))
    /\ out_files = [o \in 0..(CeilDiv(Cardinality(requested), batch_size) - 1) |-> {}]
    /\ disk = [o \in 0..(CeilDiv(Cardinality(requested), batch_size) - 1) |-> {}]
    /\ tasks = 0
    /\ pool = <<>>
    /\ lost = {}
    /\ pc = [t \in Threads |->
               IF t = "cb" THEN "idle"
               ELSE IF Min2(threads, Min2(CeilDiv(Cardinality(requested), batch_size), NumFiles)) > 1
                    THEN "check" ELSE "sync"]
    /\ l_out = [t \in Threads |-> -1]
    /\ exc = "none"
    /\ corrupt \in {c \in SUBSET requested : Cardinality(c) <= MaxCorrupt}
    /\ pbar = 0

\* ------------------------------------------------------------------ bookkeeping
\* _update_file_lists(reads, out_file, in_file): the new values of the four
\* shared structures
UpdIn(in_file) == IF in_file # None THEN Append(input_f5s, in_file) ELSE input_f5s
UpdOutFiles(reads, out_file) == [out_files EXCEPT ![out_file] = @ \cup reads]
\* read_set left as it is
UpdReadSet_keep(reads) == read_set
\* self.read_set.difference_update(reads)
UpdReadSet(reads) == read_set \ reads
UpdAvail(reads, out_file) ==
    IF Cardinality(out_files[out_file] \cup reads) < batch_size
    THEN Append(available_out_files, out_file)
    ELSE available_out_files

\* (a bar that counts every unit as an exhausted input file)
UpdPbar_every_unit(reads, in_file) == pbar + Cardinality(reads) + 1
\* self.pbar.update(self.pbar.currval + len(reads) + in_file_exhausted)
UpdPbar(reads, in_file) == pbar + Cardinality(reads) + (IF in_file # None THEN 0 ELSE 1)

update_file_lists(reads, out_file, in_file) ==
    /\ pbar' = UpdPbar(reads, in_file)
    /\ input_f5s' = UpdIn(in_file)
    /\ out_files' = UpdOutFiles(reads, out_file)
    /\ read_set' = UpdReadSet(reads)
    /\ available_out_files' = UpdAvail(reads, out_file)

Running == pc["main"] \notin {"done", "raised"}

\* ------------------------------------------------------------------ synchronous mode
\* One iteration of _launch_sync_tasks: _args_generator pairs the last input
\* file with the last available slot, the unit runs in the main thread on
\* the live read_set, and _update_file_lists records its result.  A unit
\* that raises leaves run_batch with the exception.
SyncUnit ==
    /\ pc["main"] = "sync"
    /\ available_out_files # <<>> /\ input_f5s # <<>>
    /\ LET out_file == Last(available_out_files)
           in_file == Last(input_f5s)
           count == batch_size - Cardinality(out_files[out_file])
       IN \E res \in extract_selected_reads(FileReads(in_file), disk[out_file], read_set,
                                            count, corrupt) :
            /\ disk' = [disk EXCEPT ![out_file] = res.present]
            /\ IF res.kind = "ok"
               THEN /\ input_f5s' = (IF res.in_left THEN Append(Front(input_f5s), in_file)
                                     ELSE Front(input_f5s))
                    /\ out_files' = UpdOutFiles(res.found, out_file)
                    /\ read_set' = UpdReadSet(res.found)
                    /\ available_out_files' =
                          (IF Cardinality(out_files[out_file] \cup res.found) < batch_size
                           THEN Append(Front(available_out_files), out_file)
                           ELSE Front(available_out_files))
                    /\ pbar' = UpdPbar(res.found, IF res.in_left THEN in_file ELSE None)
                    /\ UNCHANGED <<pc, exc>>
               ELSE /\ input_f5s' = Front(input_f5s)
                    /\ available_out_files' = Front(available_out_files)
                    /\ pc' = [pc EXCEPT !["main"] = "raised"]
                    /\ exc' = "unit"
                    /\ UNCHANGED <<out_files, read_set, pbar>>
    /\ UNCHANGED <<extract_vars, multi_vars, rest_vars>>
    /\ UNCHANGED <<variant, batch_size, threads, requested, loc, tasks, pool, lost, l_out, corrupt>>

\* _args_generator's loop condition is false: run_batch finishes
SyncEnd ==
    /\ pc["main"] = "sync"
    /\ ~(available_out_files # <<>> /\ input_f5s # <<>>)
    /\ pc' = [pc EXCEPT !["main"] = "done"]
    /\ UNCHANGED <<extract_vars, multi_vars, rest_vars>>
    /\ UNCHANGED <<variant, batch_size, threads, requested, loc, read_set, input_f5s,
                   available_out_files, out_files, disk, tasks, pool, lost, l_out, exc, corrupt, pbar>>

\* ------------------------------------------------------------------ asynchronous mode
\* where a thread goes when its _launch_async_tasks loop ends
AfterLaunch(t) == IF t = "main" THEN "wait" ELSE "pop_task"

\* an IndexError (pop from empty list) or ValueError (pool not running) in
\* thread t: on the main thread it leaves run_batch, on the result-handler
\* thread it ends that thread
Raise(t, e) ==
    /\ pc' = [pc EXCEPT ![t] = IF t = "main" THEN "raised" ELSE "dead"]
    /\ exc' = IF t = "main" THEN e ELSE exc

\* _args_generator: while self.available_out_files and self.input_f5s
LaunchCheck(t) ==
    /\ Running
    /\ pc[t] = "check"
    /\ pc' = [pc EXCEPT ![t] = IF available_out_files # <<>> /\ input_f5s # <<>>
                               THEN "pop_out" ELSE AfterLaunch(t)]
    /\ UNCHANGED <<extract_vars, multi_vars, rest_vars>>
    /\ UNCHANGED <<variant, batch_size, threads, requested, loc, read_set, input_f5s,
                   available_out_files, out_files, disk, tasks, pool, lost, l_out, exc, corrupt, pbar>>

\* _args_generator: out_file = self.available_out_files.pop()
LaunchPopOut(t) ==
    /\ Running
    /\ pc[t] = "pop_out"
    /\ IF available_out_files = <<>>
       THEN /\ Raise(t, "IndexError")
            /\ UNCHANGED <<available_out_files, l_out>>
       ELSE /\ l_out' = [l_out EXCEPT ![t] = Last(available_out_files)]
            /\ available_out_files' = Front(available_out_files)
            /\ pc' = [pc EXCEPT ![t] = "pop_in"]
            /\ exc' = exc
    /\ UNCHANGED <<extract_vars, multi_vars, rest_vars>>
    /\ UNCHANGED <<variant, batch_size, threads, requested, loc, read_set, input_f5s,
                   out_files, disk, tasks, pool, lost, corrupt, pbar>>

\* the task apply_async queues for (in_file, out_file, self.read_set, count).
\* The worker gets a pickled copy of read_set.  The copy is made when the
\* pool's task handler sends the task; the reads removed from read_set
\* between apply_async and that moment were found in other input files, so
\* the copy is taken here.
NewTask(in_file, out_file) ==
    [in |-> in_file, out |-> out_file, rs |-> read_set,
     count |-> batch_size - Cardinality(out_files[out_file])]

\* _args_generator: in_file = self.input_f5s.pop(); count = ...; yield;
\* _launch_async_tasks: self.pool.apply_async(...)
LaunchPopIn(t) ==
    /\ Running
    /\ pc[t] = "pop_in"
    /\ IF input_f5s = <<>>
       THEN /\ Raise(t, "IndexError")
            /\ UNCHANGED <<input_f5s, pool>>
       ELSE IF pc["main"] = "join"
       THEN \* apply_async after pool.close()
            /\ Raise(t, "ValueError")
            /\ input_f5s' = Front(input_f5s)
            /\ pool' = pool
       ELSE /\ input_f5s' = Front(input_f5s)
            /\ pool' = Append(pool, NewTask(Last(input_f5s), l_out[t]))
            /\ pc' = [pc EXCEPT ![t] = "append"]
            /\ exc' = exc
    /\ UNCHANGED <<extract_vars, multi_vars, rest_vars>>
    /\ UNCHANGED <<variant, batch_size, threads, requested, loc, read_set,
                   available_out_files, out_files, disk, tasks, lost, l_out, corrupt, pbar>>

\* fast5_subset.Fast5Filter._launch_async_tasks: if len(self.tasks) > self.num_workers: break
\* (Fast5FilterWorker._launch_async_tasks has no such test)
LaunchBreaks(ntasks) == variant = "subset" /\ ntasks > num_workers

\* _launch_async_tasks: self.tasks.append(0)
LaunchAppend(t) ==
    /\ Running
    /\ pc[t] = "append"
    /\ tasks' = tasks + 1
    /\ pc' = [pc EXCEPT ![t] = IF LaunchBreaks(tasks + 1) THEN AfterLaunch(t) ELSE "check"]
    /\ UNCHANGED <<extract_vars, multi_vars, rest_vars>>
    /\ UNCHANGED <<variant, batch_size, threads, requested, loc, read_set, input_f5s,
                   available_out_files, out_files, disk, pool, lost, l_out, exc, corrupt, pbar>>

\* the units the pool's num_workers processes can have finished: the oldest
\* num_workers tasks
CanComplete(i) == i \in 1..Len(pool) /\ i <= num_workers

UnitOutcomes(task) ==
    extract_selected_reads(FileReads(task.in), disk[task.out], task.rs, task.count, corrupt)

\* _callback(result): the unit of task i returned; the result handler runs
\* _update_file_lists(*result) and goes on to _launch_async_tasks
Callback ==
    /\ Running
    /\ pc["cb"] = "idle"
    /\ \E i \in 1..Len(pool) : \E res \in UnitOutcomes(pool[i]) :
        /\ CanComplete(i)
        /\ res.kind = "ok"
        /\ disk' = [disk EXCEPT ![pool[i].out] = res.present]
        /\ update_file_lists(res.found, pool[i].out, IF res.in_left THEN pool[i].in ELSE None)
        /\ pool' = RemoveAt(pool, i)
    /\ pc' = [pc EXCEPT !["cb"] = "check"]
    /\ UNCHANGED <<extract_vars, multi_vars, rest_vars>>
    /\ UNCHANGED <<variant, batch_size, threads, requested, loc, tasks, lost, l_out, exc, corrupt>>

\* Fast5FilterWorker._error_callback(result): the unit of task i raised
\* ExtractionException; _update_file_lists(set(), result.output_file, None)
ErrorCallback ==
    /\ Running
    /\ variant = "demux"
    /\ pc["cb"] = "idle"
    /\ \E i \in 1..Len(pool) : \E res \in UnitOutcomes(pool[i]) :
        /\ CanComplete(i)
        /\ res.kind = "raise"
        /\ disk' = [disk EXCEPT ![pool[i].out] = res.present]
        /\ update_file_lists({}, pool[i].out, None)
        /\ pool' = RemoveAt(pool, i)
    /\ pc' = [pc EXCEPT !["cb"] = "check"]
    /\ UNCHANGED <<extract_vars, multi_vars, rest_vars>>
    /\ UNCHANGED <<variant, batch_size, threads, requested, loc, tasks, lost, l_out, exc, corrupt>>

\* fast5_subset.Fast5Filter passes no error_callback to apply_async and its
\* extract_selected_reads catches nothing: the unit of task i raised and the
\* pool drops the result
UnitLost ==
    /\ Running
    /\ variant = "subset"
    /\ \E i \in 1..Len(pool) : \E res \in UnitOutcomes(pool[i]) :
        /\ CanComplete(i)
        /\ res.kind = "raise"
        /\ disk' = [disk EXCEPT ![pool[i].out] = res.present]
        /\ lost' = lost \cup {[in |-> pool[i].in, out |-> pool[i].out]}
        /\ pool' = RemoveAt(pool, i)
    /\ UNCHANGED <<extract_vars, multi_vars, rest_vars>>
    /\ UNCHANGED <<variant, batch_size, threads, requested, loc, read_set, input_f5s,
                   available_out_files, out_files, tasks, pc, l_out, exc, corrupt, pbar>>

\* _callback / _error_callback: self.tasks.pop()
CallbackPop ==
    /\ Running
    /\ pc["cb"] = "pop_task"
    /\ IF tasks = 0
       THEN Raise("cb", "IndexError") /\ tasks' = tasks
       ELSE /\ tasks' = tasks - 1
            /\ pc' = [pc EXCEPT !["cb"] = "idle"]
            /\ exc' = exc
    /\ UNCHANGED <<extract_vars, multi_vars, rest_vars>>
    /\ UNCHANGED <<variant, batch_size, threads, requested, loc, read_set, input_f5s,
                   available_out_files, out_files, disk, pool, lost, l_out, corrupt, pbar>>

\* (a wait loop that only looks at the work that is queued)
WaitCondition_queued == input_f5s # <<>> /\ read_set # {}
\* the condition of run_batch's wait loop
\*   fast5_subset:  while self.tasks or (self.input_f5s and self.read_set)
\*   demux_fast5:   while any(worker.tasks for worker in self.workers)
WaitCondition ==
    IF variant = "subset"
    THEN tasks > 0 \/ (input_f5s # <<>> /\ read_set # {})
    ELSE tasks > 0

\* the main thread finds the wait condition false.  fast5_subset goes on to
\* pool.close() and pool.join(); demux_fast5 leaves the with block, which
\* terminates the pool, and returns
WaitExit ==
    /\ pc["main"] = "wait"
    /\ ~WaitCondition
    /\ IF variant = "subset"
       THEN pc' = [pc EXCEPT !["main"] = "join"] /\ pool' = pool
       ELSE pc' = [pc EXCEPT !["main"] = "done"] /\ pool' = <<>>
    /\ UNCHANGED <<extract_vars, multi_vars, rest_vars>>
    /\ UNCHANGED <<variant, batch_size, threads, requested, loc, read_set, input_f5s,
                   available_out_files, out_files, disk, tasks, lost, l_out, exc, corrupt, pbar>>

\* pool.join() returns once every submitted task has been handled
Join ==
    /\ pc["main"] = "join"
    /\ pool = <<>>
    /\ pc["cb"] = "idle"
    /\ pc' = [pc EXCEPT !["main"] = "done"]
    /\ UNCHANGED <<extract_vars, multi_vars, rest_vars>>
    /\ UNCHANGED <<variant, batch_size, threads, requested, loc, read_set, input_f5s,
                   available_out_files, out_files, disk, tasks, pool, lost, l_out, exc, corrupt, pbar>>

\* ------------------------------------------------------------------ reports
\* the reads recorded as extracted: the union of the sets of out_files
Extracted == UNION {out_files[o] : o \in DOMAIN out_files}

\* Fast5Demux.report: total_reads, the sum of len(reads) over worker.out_files
RECURSIVE SumLen(_)
SumLen(S) ==
    IF S = {} THEN 0
    ELSE LET o == CHOOSE x \in S : TRUE
         IN  Cardinality(out_files[o]) + SumLen(S \ {o})
TotalReads == SumLen(DOMAIN out_files)

\* Fast5Filter.run_batch: "{} reads not found!".format(len(self.read_set)),
\* logged if len(self.read_set) > 0
SubsetNotFound == Cardinality(read_set)

\* Fast5Demux.report: reads_to_extract = sum(len(item) for item in
\* self.read_sets.values()); read_sets[demux] is the set the worker was given
\* and has been removing the found reads from
ReadsToExtract == Cardinality(read_set)
DemuxNotFound == IF ReadsToExtract > TotalReads THEN ReadsToExtract - TotalReads ELSE 0

NotFoundReported == IF variant = "subset" THEN SubsetNotFound ELSE DemuxNotFound

Done == pc["main"] = "done"
Terminated == pc["main"] \in {"done", "raised"}


Next ==
    \/ SyncUnit
    \/ SyncEnd
    \/ \E t \in Threads : LaunchCheck(t)
    \/ \E t \in Threads : LaunchPopOut(t)
    \/ \E t \in Threads : LaunchPopIn(t)
    \/ \E t \in Threads : LaunchAppend(t)
    \/ Callback
    \/ ErrorCallback
    \/ UnitLost
    \/ CallbackPop
    \/ WaitExit
    \/ Join

Spec == Init /\ [][Next]_vars

\* ------------------------------------------------------------------ properties of the scheduler
\* the input files still queued
QueuedInputs == {input_f5s[i] : i \in 1..Len(input_f5s)}
\* the output files that physically hold at least one read
OutputsWithReads == {o \in DOMAIN disk : disk[o] # {}}
AllPresent == \A r \in requested : loc[r] # None
Absent == {r \in requested : loc[r] = None}

C3_NotFoundCount ==
    Done => /\ NotFoundReported = Cardinality(requested \ Extracted)
            /\ corrupt = {} => NotFoundReported = Cardinality(Absent)

\* C4: a unit that raises is contained: its exception never leaves run_batch
\* and no raised unit is left without its output slot having been returned.
C4_ErrorContained == exc # "unit" /\ lost = {}

\* C5: run_batch returns: as long as the result-handler thread is alive, the
\* run has either ended or some thread can still take a step (the wait loop
\* is never stuck with nothing left that could end it).
C5_RunBatchReturns == pc["cb"] # "dead" => (Terminated \/ ENABLED Next)

MaxCount == NumReads + 1

InitExtract ==
    /\ NoRun
    /\ NoRest
    /\ EmptyContainer
    /\ e_in \in SUBSET Reads
    /\ e_present \in SUBSET Reads
    /\ e_read_set \in SUBSET Reads
    /\ e_count \in 1..MaxCount
    /\ e_res = Ok({}, {}, FALSE)
    /\ e_input_f5s = <<>>
    /\ e_pc = "call"

\* extract_selected_reads(input_file, output_file, read_set, count); at most
\* MaxCorrupt reads of the input file cannot be copied
ExtractCall ==
    /\ e_pc = "call"
    /\ \E bad \in SUBSET e_in :
          /\ Cardinality(bad) <= MaxCorrupt
          /\ e_res' \in extract_selected_reads(e_in, e_present, e_read_set, e_count, bad)
    /\ e_pc' = "returned"
    /\ UNCHANGED <<e_in, e_present, e_read_set, e_count, e_input_f5s>>
    /\ UNCHANGED <<sched_vars, multi_vars, rest_vars>>

\* _callback(result) of the unit: _update_file_lists(reads, out_file, in_file)
\* appends in_file to input_f5s unless it is None and removes the reads found
\* from read_set
ExtractCallback ==
    /\ e_pc = "returned" /\ e_res.kind = "ok"
    /\ e_input_f5s' = IF e_res.in_left THEN Append(e_input_f5s, "in") ELSE e_input_f5s
    /\ e_read_set' = e_read_set \ e_res.found
    /\ e_pc' = "updated"
    /\ UNCHANGED <<e_in, e_present, e_count, e_res>>
    /\ UNCHANGED <<sched_vars, multi_vars, rest_vars>>

\* _error_callback(result) of the unit: _update_file_lists(set(), out_file, None)
ExtractErrorCallback ==
    /\ e_pc = "returned" /\ e_res.kind = "raise"
    /\ e_read_set' = e_read_set \ {}
    /\ e_pc' = "failed"
    /\ UNCHANGED <<e_in, e_present, e_count, e_res, e_input_f5s>>
    /\ UNCHANGED <<sched_vars, multi_vars, rest_vars>>

NextExtract ==
    \/ ExtractCall
    \/ ExtractCallback
    \/ ExtractErrorCallback

SpecExtract == InitExtract /\ [][NextExtract]_vars

Returned == e_pc = "returned"
ReturnsInput == e_res.in_left
NumFound == Cardinality(e_res.found)
\* no read the call looks for is in the output file already
NoneWritten == Matching(e_read_set, e_in) \cap e_present = {}

\* C7 as stated: the input file is returned if and only if the number of found
\* reads reached count (None is returned when fewer were found), and the
\* found set is a subset of read_set.
C7_ReturnsInputIffCount ==
    Returned => /\ ReturnsInput <=> NumFound >= e_count
                /\ e_res.found \subseteq e_read_set

\* C7 (amended): the found set is always a subset of read_set; the input file
\* is returned if and only if the number of found reads reached count when
\* none of the reads of read_set that the input file holds is in the output
\* file before the call.
C7_ReturnsInputIffCountFresh ==
    Returned => /\ NoneWritten => (ReturnsInput <=> NumFound >= e_count)
                /\ e_res.found \subseteq e_read_set

\* count equals the number of matching reads of the input, none of them in
\* the output before the call: all are found and the input file is returned
C7_Witness ==
    /\ Returned /\ NoneWritten
    /\ e_count = Cardinality(Matching(e_read_set, e_in))
    /\ NumFound = e_count /\ ReturnsInput

\* the unit's callback has run; its input file is back on the work queue;
\* the target reads the input file holds that are still to be extracted
Updated == e_pc = "updated"
Failed == e_pc = "failed"
Requeued == e_input_f5s # <<>>
TargetsLeft == e_in \cap e_read_set

\* C22 as stated: after a unit has completed, its input file is back on the
\* work queue if and only if it still holds target reads that have not been
\* extracted; an exhausted input file is never requeued.
C22_RequeuedIffTargetsLeft == (Updated \/ Failed) => (Requeued <=> TargetsLeft # {})

\* C22 (amended): the input file is requeued only by a unit that found count
\* reads, and the file of a unit that returned and is not requeued holds no
\* target read that is still to be extracted; a requeued file may be
\* exhausted, and the file of a unit that raised is never requeued.
C22_RequeuedWhenSlotFilled ==
    /\ Updated => /\ Requeued => NumFound >= e_count
                  /\ ~Requeued => TargetsLeft = {}
    /\ Failed => ~Requeued

\* a unit filled its slot before the end of its input file, which is requeued
\* with a target read left
C22_Witness ==
    /\ Updated /\ Requeued /\ TargetsLeft # {} /\ NumFound = e_count

\* C23: in asynchronous mode the number of tasks the scheduler counts as in
\* flight, len(self.tasks), never exceeds the worker count of the pool.
C23_TasksWithinWorkers == IsAsync => tasks <= num_workers

\* C28: whichever way the main thread's _launch_async_tasks and the
\* completion callbacks interleave, a thread that is about to pop in
\* _args_generator finds the list non-empty.
C28_PopsFindEntries ==
    \A t \in Threads :
        /\ pc[t] = "pop_out" => available_out_files # <<>>
        /\ pc[t] = "pop_in" => input_f5s # <<>>

\* the result-handler thread is inside a callback
InCallback == pc["cb"] \in {"check", "pop_out", "pop_in", "append", "pop_task"}
\* the main thread has left the wait loop of run_batch by its condition
LeftWaitLoop == IsAsync /\ pc["main"] \in {"join", "done"}

pbar_max == Cardinality(requested) + NumFiles

MaxOf(S) == CHOOSE x \in S : \A y \in S : y <= x

\* Fast5Read.run_id: the run_id attribute of the read's tracking_id group;
\* None stands for the KeyError of a missing group or attribute
run_id(r) ==
    IF m_link[r]["tracking_id"] = None THEN None
    ELSE m_attrs[m_link[r]["tracking_id"]]["tracking_id"]

\* the dict the run_id_map property builds on first use: get_reads() walks
\* the groups in name order, a later read replaces an earlier one of the same
\* run, reads whose run_id raises KeyError are skipped
BuildMap ==
    [R \in RunIds |->
        LET S == {r \in m_reads : run_id(r) = R}
        IN  IF S = {} THEN None ELSE MaxOf(S)]

\* MultiFast5File.run_id_map
run_id_map == IF m_built THEN m_map ELSE BuildMap

\* no link is made
LinkTo_none(src, g) == None
\* self.handle[dest] = self.handle[source]: the object the new name refers to
LinkTo(src, g) == m_link[src][g]

\* create_empty_read, the loop over HARDLINK_GROUPS from group i on: links
\* made so far and whether a KeyError ended the loop
RECURSIVE LinkLoop(_, _, _)
LinkLoop(src, i, links) ==
    IF i > Len(HARDLINK_GROUPS) THEN [links |-> links, failed |-> FALSE]
    ELSE LET g == HARDLINK_GROUPS[i]
         IN  IF m_link[src][g] = None
             THEN [links |-> links, failed |-> TRUE]
             ELSE LinkLoop(src, i + 1, [links EXCEPT ![g] = LinkTo(src, g)])

\* the refusal made after the read was registered for its run
RejectExisting_register(read_id, run) ==
    /\ m_call' = Call("create_empty_read", read_id, "ValueError")
    /\ m_map' = [run_id_map EXCEPT ![run] = read_id]
    /\ m_built' = TRUE
    /\ UNCHANGED <<m_reads, m_run_attr, m_link, m_attrs, m_origin>>
\* create_empty_read, else branch: the group exists already
RejectExisting(read_id, run) ==
    /\ m_call' = Call("create_empty_read", read_id, "ValueError")
    /\ UNCHANGED <<container_vars, m_origin>>

\* MultiFast5File.create_empty_read(read_id, run_id)
create_empty_read(read_id, run) ==
    /\ m_ops < MaxOps
    /\ m_ops' = m_ops + 1
    /\ IF read_id \in m_reads
       THEN RejectExisting(read_id, run)
       ELSE LET map0 == run_id_map
                src == map0[run]
                res == IF src = None THEN [links |-> NoLinks, failed |-> TRUE]
                       ELSE LinkLoop(src, 1, NoLinks)
            IN  /\ m_reads' = m_reads \cup {read_id}
                /\ m_link' = [m_link EXCEPT ![read_id] = res.links]
                /\ m_map' = IF res.failed THEN [map0 EXCEPT ![run] = read_id] ELSE map0
                /\ m_built' = TRUE
                /\ m_run_attr' = [m_run_attr EXCEPT ![read_id] = run]
                /\ m_origin' = [m_origin EXCEPT ![read_id] = "empty"]
                /\ m_call' = Call("create_empty_read", read_id, "ok")
                /\ UNCHANGED m_attrs
    /\ UNCHANGED <<sched_vars, extract_vars, rest_vars>>

\* the reads of another multi-read file that add_existing_read is given: the
\* run id and the hardlinkable groups the read has
SourceReads == [run : RunIds, has : SUBSET Groups]

\* _add_read_from_multi, the loop over the read's subgroups from hardlinkable
\* group i on.  links: the groups of the new read so far (own: copied);
\* map: run_id_map
RECURSIVE AddLoop(_, _, _, _, _)
AddLoop(read_id, src, i, links, map) ==
    IF i > Len(HARDLINK_GROUPS) THEN [links |-> links, map |-> map]
    ELSE LET g == HARDLINK_GROUPS[i]
             s == map[src.run]
             sl == IF s = None THEN None
                   ELSE IF s = read_id THEN links[g] ELSE m_link[s][g]
         IN  IF g \notin src.has THEN AddLoop(read_id, src, i + 1, links, map)
             ELSE IF sl # None
             THEN AddLoop(read_id, src, i + 1, [links EXCEPT ![g] = sl], map)
             ELSE AddLoop(read_id, src, i + 1, [links EXCEPT ![g] = read_id],
                          [map EXCEPT ![src.run] = read_id])

\* MultiFast5File.add_existing_read(read_to_add) for a read of a multi-read file
add_existing_read(read_id, src) ==
    /\ m_ops < MaxOps
    /\ m_ops' = m_ops + 1
    /\ IF read_id \in m_reads
       THEN \* self.handle.create_group(read_name) raises
            /\ m_call' = Call("add_existing_read", read_id, "ValueError")
            /\ UNCHANGED <<container_vars, m_origin>>
       ELSE IF src.has # {} /\ "tracking_id" \notin src.has
       THEN \* read_to_add.run_id raises KeyError after the group was created
            /\ m_reads' = m_reads \cup {read_id}
            /\ m_run_attr' = [m_run_attr EXCEPT ![read_id] = src.run]
            /\ m_origin' = [m_origin EXCEPT ![read_id] = "copied"]
            /\ m_call' = Call("add_existing_read", read_id, "KeyError")
            /\ UNCHANGED <<m_link, m_attrs, m_built, m_map>>
       ELSE LET res == AddLoop(read_id, src, 1, NoLinks, run_id_map)
            IN  /\ m_reads' = m_reads \cup {read_id}
                /\ m_run_attr' = [m_run_attr EXCEPT ![read_id] = src.run]
                /\ m_link' = [m_link EXCEPT ![read_id] = res.links]
                /\ m_attrs' = [m_attrs EXCEPT ![read_id] =
                                  [g \in Groups |-> IF res.links[g] = read_id THEN src.run ELSE None]]
                /\ m_built' = (m_built \/ src.has # {})
                /\ m_map' = IF src.has # {} THEN res.map ELSE m_map
                /\ m_origin' = [m_origin EXCEPT ![read_id] = "copied"]
                /\ m_call' = Call("add_existing_read", read_id, "ok")
    /\ UNCHANGED <<sched_vars, extract_vars, rest_vars>>

\* Fast5Read._add_attributes(path, attrs, clear) on one attribute: data is
\* the value attrs gives it (None: attrs does not name it)
WriteAttrs(old, data, clear) ==
    IF data # None THEN data ELSE IF clear THEN None ELSE old

\* the attributes after _add_attributes on group g of read r
AttrsAfter(r, g, data, clear) ==
    [m_attrs EXCEPT ![m_link[r][g]][g] = WriteAttrs(@, data, clear)]

\* Fast5Read.set_tracking_id(data, clear)
set_tracking_id(r, data, clear) ==
    /\ m_ops < MaxOps
    /\ m_ops' = m_ops + 1
    /\ r \in m_reads
    /\ IF m_link[r]["tracking_id"] = None
       THEN /\ m_call' = Call("set_tracking_id", r, "KeyError")
            /\ UNCHANGED m_attrs
       ELSE /\ m_call' = Call("set_tracking_id", r, "ok")
            /\ m_attrs' = AttrsAfter(r, "tracking_id", data, clear)
    /\ UNCHANGED <<m_reads, m_run_attr, m_link, m_built, m_map, m_origin>>
    /\ UNCHANGED <<sched_vars, extract_vars, rest_vars>>

\* a group g created under read r with the attributes data
NewGroup(r, g, data) ==
    /\ m_link' = [m_link EXCEPT ![r][g] = r]
    /\ m_attrs' = [m_attrs EXCEPT ![r][g] = data]

\* Fast5Read.add_tracking_id(attrs, clear)
add_tracking_id(r, data, clear) ==
    /\ m_ops < MaxOps
    /\ m_ops' = m_ops + 1
    /\ r \in m_reads
    /\ IF m_link[r]["tracking_id"] = None
       THEN NewGroup(r, "tracking_id", data)
       ELSE /\ m_attrs' = AttrsAfter(r, "tracking_id", data, clear)
            /\ UNCHANGED m_link
    /\ m_call' = Call("add_tracking_id", r, "ok")
    /\ UNCHANGED <<m_reads, m_run_attr, m_built, m_map, m_origin>>
    /\ UNCHANGED <<sched_vars, extract_vars, rest_vars>>

\* Fast5Read.add_context_tags(data, clear)
add_context_tags(r, data, clear) ==
    /\ m_ops < MaxOps
    /\ m_ops' = m_ops + 1
    /\ r \in m_reads
    /\ IF m_link[r]["context_tags"] = None
       THEN NewGroup(r, "context_tags", data)
       ELSE /\ m_attrs' = AttrsAfter(r, "context_tags", data, clear)
            /\ UNCHANGED m_link
    /\ m_call' = Call("add_context_tags", r, "ok")
    /\ UNCHANGED <<m_reads, m_run_attr, m_built, m_map, m_origin>>
    /\ UNCHANGED <<sched_vars, extract_vars, rest_vars>>

\* the file is closed and opened again for appending: MultiFast5File.__init__
\* sets _run_id_map = None
Reopen ==
    /\ m_ops < MaxOps
    /\ m_ops' = m_ops + 1
    /\ m_built' = FALSE
    /\ m_map' = [R \in RunIds |-> None]
    /\ m_call' = Call("open", None, "ok")
    /\ UNCHANGED <<m_reads, m_run_attr, m_link, m_attrs, m_origin>>
    /\ UNCHANGED <<sched_vars, extract_vars, rest_vars>>

\* Fast5Read.get_tracking_id: the attributes, or the KeyError of a missing group
get_tracking_id(r) ==
    IF m_link[r]["tracking_id"] = None THEN [err |-> "KeyError", attrs |-> None]
    ELSE [err |-> "ok", attrs |-> m_attrs[m_link[r]["tracking_id"]]["tracking_id"]]

\* Fast5Read.get_context_tags: the attributes, {} without the group
get_context_tags(r) ==
    IF m_link[r]["context_tags"] = None THEN None
    ELSE m_attrs[m_link[r]["context_tags"]]["context_tags"]

AttrValues == RunIds \cup {None}

InitMulti ==
    /\ NoRun
    /\ NoRest
    /\ NoExtractCall
    /\ EmptyContainer

\* the (attrs, clear) arguments of a metadata write; clear changes nothing
\* when attrs names the attribute, so it is only drawn with an attrs that
\* does not
WriteArgs == {w \in [data : AttrValues, clear : BOOLEAN] : w.clear => w.data = None}

NextMulti ==
    \/ \E r \in ReadIds : \E R \in RunIds : create_empty_read(r, R)
    \/ \E r \in ReadIds : \E src \in SourceReads : add_existing_read(r, src)
    \/ \E r \in ReadIds : \E w \in WriteArgs : set_tracking_id(r, w.data, w.clear)
    \/ \E r \in ReadIds : \E w \in WriteArgs : add_tracking_id(r, w.data, w.clear)
    \/ \E r \in ReadIds : \E w \in WriteArgs : add_context_tags(r, w.data, w.clear)
    \/ Reopen

SpecMulti == InitMulti /\ [][NextMulti]_vars

\* ------------------------------------------------------------------ properties of the container
\* the read run_id_map holds for run R, and whether it has every hardlinkable group
Source(R) == run_id_map[R]
SourceComplete(R) ==
    /\ Source(R) # None
    /\ \A g \in Groups : m_link[Source(R)][g] # None
CreatedEmpty(r) == r \in m_reads /\ m_origin[r] = "empty"
MetadataWrites == {"set_tracking_id", "add_tracking_id", "add_context_tags"}

\* C8 as stated: two reads created with create_empty_read with the same
\* run_id refer to the identical tracking_id and context_tags objects.
C8_SameObjects ==
    \A a \in ReadIds : \A b \in ReadIds :
        (a # b /\ CreatedEmpty(a) /\ CreatedEmpty(b) /\ m_run_attr[a] = m_run_attr[b])
            => \A g \in Groups : m_link[a][g] = m_link[b][g]

\* C8 (amended): create_empty_read(b, R) makes b's tracking_id and
\* context_tags the very objects of the read that run_id_map holds for R,
\* when that read has both groups.
C8_LinkedToSource ==
    [][(m_call'.op = "create_empty_read" /\ m_call'.err = "ok") =>
          LET b == m_call'.read
              R == m_run_attr'[b]
          IN  SourceComplete(R) => \A g \in Groups : m_link'[b][g] = m_link[Source(R)][g]]_vars

\* two reads made by create_empty_read with the same run_id share both objects
C8_Witness ==
    \E a \in ReadIds : \E b \in ReadIds :
        /\ a # b /\ CreatedEmpty(a) /\ CreatedEmpty(b) /\ m_run_attr[a] = m_run_attr[b]
        /\ m_call = Call("create_empty_read", b, "ok")
        /\ \A g \in Groups : m_link[b][g] # None /\ m_link[b][g] = m_link[a][g]

\* C25 as stated: the run_id index names the first read seen for a run_id; no
\* later create_empty_read or add_existing_read with that run_id and no lazy
\* build or rebuild of the index replaces an entry.
C25_FirstSeenKept ==
    [][\A R \in RunIds : Source(R) # None => Source(R)' = Source(R)]_vars

\* C9: a write to one read's metadata (set_tracking_id, add_tracking_id,
\* add_context_tags) leaves what get_tracking_id and get_context_tags return
\* for every other read unchanged, as it would had the groups been copied.
C9_WritesAreLocal ==
    [][m_call'.op \in MetadataWrites =>
          \A r \in m_reads \ {m_call'.read} :
              /\ get_tracking_id(r)' = get_tracking_id(r)
              /\ get_context_tags(r)' = get_context_tags(r)]_vars

\* C10: create_empty_read with a read_id that exists raises ValueError and
\* changes nothing in the container: no group, no attribute, no link, and
\* not the run_id index.
C10_ExistingRejected ==
    [][(m_call'.op = "create_empty_read" /\ m_call'.read \in m_reads) =>
          /\ m_call'.err = "ValueError"
          /\ UNCHANGED container_vars]_vars

\* create_empty_read was just refused for a read that exists, in a container
\* whose run_id index has been built
C10_Witness ==
    /\ m_call.op = "create_empty_read" /\ m_call.err = "ValueError"
    /\ m_call.read \in m_reads
    /\ m_built

\* ------------------------------------------------------------------ one fast5 file: the objects
\* self._is_open: an attribute of AbstractFast5File, a property of AbstractFast5
is_open == IF f_kind = "Fast5File" THEN f_is_open ELSE Repr(f_handle) # "<Closed HDF5 file>"
\* the same property on the Fast5Read
read_is_open == Repr(f_read.handle) # "<Closed HDF5 file>"

assert_open(open) == IF ~open THEN "IOError: not open" ELSE "ok"

\* assert_writeable without the test of the mode
assert_writeable_any_mode(open, mode) == assert_open(open)

assert_writeable(open, mode) ==
    IF assert_open(open) # "ok" THEN assert_open(open)
    ELSE IF mode = "r" THEN "IOError: read-only mode"
    ELSE "ok"

\* the exception h5py raises when a group of a closed file is used: the
\* source does not determine its type, it is none of the errors tested for
ClosedHandleErrors == {"h5py error"}

Modes == {"r", "r+"}
file_state == <<f_kind, f_mode, f_handle, f_is_open, f_disk, f_written, f_status, f_read>>

\* the state of a file that was written with this API and is now opened:
\* read ids are unique, a Signal dataset lies in a Raw group
InitFile ==
    /\ NoRestButFile
    /\ f_kind \in {"Fast5File", "MultiFast5File"}
    /\ f_disk \in [ReadNumbers -> {NoGroup} \cup {ReadGroup(i, raw, s) :
                                      i \in ReadNumbers, raw \in BOOLEAN, s \in {None, 1}}]
    /\ \E k \in 0..NumNumbers : \A n \in ReadNumbers : f_disk[n].present <=> n <= k
    /\ \A n \in ReadNumbers : f_disk[n].present =>
          /\ f_disk[n].read_id = n
          /\ f_disk[n].raw = (f_kind = "Fast5File" \/ f_disk[n].signal # None)
    /\ f_mode \in Modes
    /\ f_handle = "File"
    /\ f_is_open = (f_kind = "Fast5File")
    /\ f_status = IF f_kind = "Fast5File" THEN Fast5Info(f_disk) ELSE NoStatus
    /\ f_written = {}
    /\ f_read = NoRead
    /\ f_call = FileCall("open", None, None, "ok")
    /\ f_ops = 0

\* a call was made and ended with call.err
FileStep(call) ==
    /\ f_ops < MaxFileOps
    /\ f_call' = call
    /\ f_ops' = f_ops + 1
    /\ UNCHANGED not_file_vars

\* the call raised before it changed anything
FileRaises(call) == FileStep(call) /\ UNCHANGED file_state

\* close() of the container
close ==
    /\ FileStep(FileCall("close", None, None, "ok"))
    /\ IF is_open
       THEN /\ f_mode' = "None"
            /\ f_handle' = "None"
            /\ f_is_open' = FALSE
            /\ f_status' = NoStatus
            /\ f_read' = IF f_read.made /\ f_handle = "File"
                         THEN [f_read EXCEPT !.handle = "ClosedGroup"] ELSE f_read
       ELSE UNCHANGED <<f_mode, f_handle, f_is_open, f_status, f_read>>
    /\ UNCHANGED <<f_kind, f_disk, f_written>>

\* Fast5File(fname, mode) / MultiFast5File(filename, mode) on the same file,
\* after the previous object was closed
Open(mode) ==
    /\ f_handle = "None"
    /\ FileStep(FileCall("open", None, None, "ok"))
    /\ f_mode' = mode
    /\ f_handle' = "File"
    /\ f_is_open' = (f_kind = "Fast5File")
    /\ f_status' = IF f_kind = "Fast5File" THEN Fast5Info(f_disk) ELSE NoStatus
    /\ UNCHANGED <<f_kind, f_disk, f_written, f_read>>

\* container.assert_open()
AssertOpen == FileRaises(FileCall("assert_open", None, None, assert_open(is_open)))

\* read.assert_open() on the Fast5Read
ReadAssertOpen ==
    /\ f_read.made
    /\ FileRaises(FileCall("read.assert_open", f_read.read, None, assert_open(read_is_open)))

\* MultiFast5File.get_read(read_id)
get_read(read_id) ==
    /\ f_kind = "MultiFast5File"
    /\ IF f_handle = "None" THEN FileRaises(FileCall("get_read", read_id, None, "TypeError"))
       ELSE IF ~f_disk[read_id].present THEN FileRaises(FileCall("get_read", read_id, None, "KeyError"))
       ELSE /\ FileStep(FileCall("get_read", read_id, None, "ok"))
            /\ f_read' = Fast5Read(read_id, f_mode)
            /\ UNCHANGED <<f_kind, f_mode, f_handle, f_is_open, f_disk, f_written, f_status>>

\* Fast5File.add_read(read_number, read_id, ...)
Fast5File_add_read(read_number, read_id) ==
    LET w == assert_writeable(is_open, f_mode)
        call(err) == FileCall("add_read", read_number, read_id, err)
    IN  /\ f_kind = "Fast5File"
        /\ IF w # "ok" THEN FileRaises(call(w))
           ELSE /\ f_status' = Register(f_status, ReadInfo(read_number, read_id))
                /\ IF f_disk[read_number].present
                   THEN \* _add_group: create_group on a name that exists
                        /\ FileStep(call("ValueError"))
                        /\ UNCHANGED f_disk
                   ELSE /\ FileStep(call("ok"))
                        /\ f_disk' = [f_disk EXCEPT ![read_number] = ReadGroup(read_id, TRUE, None)]
                /\ UNCHANGED <<f_kind, f_mode, f_handle, f_is_open, f_written, f_read>>

\* Fast5File.add_raw_data(read_number, data) with _save_raw
Fast5File_add_raw_data(read_number, data) ==
    LET w == assert_writeable(is_open, f_mode)
        call(err) == FileCall("add_raw_data", read_number, data, err)
        read_index == f_status.read_number_map[read_number]
    IN  /\ f_kind = "Fast5File"
        /\ IF w # "ok" THEN FileRaises(call(w))
           ELSE IF read_number \notin DOMAIN f_status.read_number_map THEN FileRaises(call("KeyError"))
           ELSE IF f_status.read_info[read_index + 1].has_raw_data THEN FileRaises(call("KeyError"))
           ELSE IF f_disk[read_number].signal # None
           THEN \* create_dataset on a name that exists
                FileRaises(call("ValueError"))
           ELSE /\ FileStep(call("ok"))
                /\ f_disk' = [f_disk EXCEPT ![read_number].signal = data]
                /\ f_status' = [f_status EXCEPT !.read_info[read_index + 1].has_raw_data = TRUE]
                /\ UNCHANGED <<f_kind, f_mode, f_handle, f_is_open, f_written, f_read>>

\* Fast5Read.add_raw_data(data, attrs, compression)
Fast5Read_add_raw_data(data) ==
    LET w == assert_writeable(read_is_open, f_read.mode)
        r == f_read.read
        call(err) == FileCall("add_raw_data", r, data, err)
    IN  /\ f_kind = "MultiFast5File" /\ f_read.made
        /\ IF w # "ok" THEN FileRaises(call(w))
           ELSE IF f_read.handle = "ClosedGroup"
           THEN \E e \in ClosedHandleErrors : FileRaises(call(e))
           ELSE /\ IF f_disk[r].signal # None
                   THEN /\ FileStep(call("KeyError"))
                        /\ f_disk' = [f_disk EXCEPT ![r].raw = TRUE]
                   ELSE /\ FileStep(call("ok"))
                        /\ f_disk' = [f_disk EXCEPT ![r].raw = TRUE, ![r].signal = data]
                /\ UNCHANGED <<f_kind, f_mode, f_handle, f_is_open, f_written, f_status, f_read>>

\* Fast5Read.add_read: not implemented
Fast5Read_add_read ==
    /\ f_kind = "MultiFast5File" /\ f_read.made
    /\ FileRaises(FileCall("add_read", f_read.read, None, "NotImplementedError"))

\* h5py's create_group(name) on self.handle of the MultiFast5File: the error
\* it ends with, "ok" if the group is made
create_group(read_id) ==
    IF f_handle = "None" THEN "AttributeError"
    ELSE IF f_disk[read_id].present \/ f_mode = "r" THEN "ValueError"
    ELSE "ok"

\* MultiFast5File.create_empty_read(read_id, run_id), without the links
MultiFast5File_create_empty_read(read_id) ==
    LET call(err) == FileCall("create_empty_read", read_id, None, err)
    IN  /\ f_kind = "MultiFast5File"
        /\ IF f_handle = "None" THEN FileRaises(call("TypeError"))
           ELSE IF f_disk[read_id].present THEN FileRaises(call("ValueError"))
           ELSE IF create_group(read_id) # "ok" THEN FileRaises(call(create_group(read_id)))
           ELSE /\ FileStep(call("ok"))
                /\ f_disk' = [f_disk EXCEPT ![read_id] = ReadGroup(read_id, FALSE, None)]
                /\ f_read' = Fast5Read(read_id, f_mode)
                /\ UNCHANGED <<f_kind, f_mode, f_handle, f_is_open, f_written, f_status>>

\* MultiFast5File.add_existing_read(read_to_add) of a read with raw data from
\* another multi read file, without the links
MultiFast5File_add_existing_read(read_id, data) ==
    LET call(err) == FileCall("add_existing_read", read_id, data, err)
    IN  /\ f_kind = "MultiFast5File"
        /\ IF create_group(read_id) # "ok" THEN FileRaises(call(create_group(read_id)))
           ELSE /\ FileStep(call("ok"))
                /\ f_disk' = [f_disk EXCEPT ![read_id] = ReadGroup(read_id, TRUE, data)]
                /\ UNCHANGED <<f_kind, f_mode, f_handle, f_is_open, f_written, f_status, f_read>>

\* the writers of one metadata or analysis group: what they need to exist
\* (KeyError otherwise), what must not exist (ValueError otherwise) and what
\* they write.  One analysis group name is used.
MetaOps == {"add_analysis", "add_chain", "set_tracking_id", "add_tracking_id",
            "add_channel_info", "add_context_tags"}
Needs(op) ==
    CASE op = "add_chain" -> {"Analyses/Test_000"}
      [] op = "set_tracking_id" -> IF f_kind = "Fast5File" THEN {} ELSE {"tracking_id"}
      [] op = "add_channel_info" -> {}
      [] OTHER -> {}
Excludes(op) == IF op = "add_analysis" THEN {"Analyses/Test_000"} ELSE {}
Writes(op) ==
    CASE op = "add_analysis" -> "Analyses/Test_000"
      [] op = "add_chain" -> "Analyses/Test_000/chain"
      [] op \in {"set_tracking_id", "add_tracking_id"} -> "tracking_id"
      [] op = "add_channel_info" -> "channel_id"
      [] op = "add_context_tags" -> "context_tags"

\* add_analysis, add_chain, set_tracking_id, add_tracking_id, add_channel_info
\* and add_context_tags of the Fast5File or of the Fast5Read
MetaWrite(op) ==
    LET onfile == f_kind = "Fast5File"
        w == IF onfile THEN assert_writeable(is_open, f_mode)
             ELSE assert_writeable(read_is_open, f_read.mode)
        who == IF onfile THEN None ELSE f_read.read
        has == {g[2] : g \in {x \in f_written : x[1] = who}}
        call(err) == FileCall(op, who, None, err)
    IN  /\ onfile \/ f_read.made
        /\ onfile => op # "add_tracking_id"
        /\ IF w # "ok" THEN FileRaises(call(w))
           ELSE IF ~onfile /\ f_read.handle = "ClosedGroup"
           THEN \E e \in ClosedHandleErrors : FileRaises(call(e))
           ELSE IF ~(Needs(op) \subseteq has) THEN FileRaises(call("KeyError"))
           ELSE IF Excludes(op) \cap has # {} THEN FileRaises(call("ValueError"))
           ELSE /\ FileStep(call("ok"))
                /\ f_written' = f_written \cup {<<who, Writes(op)>>}
                /\ UNCHANGED <<f_kind, f_mode, f_handle, f_is_open, f_disk, f_status, f_read>>

NextFile ==
    \/ close
    \/ \E mode \in Modes : Open(mode)
    \/ AssertOpen
    \/ ReadAssertOpen
    \/ \E r \in ReadNumbers : get_read(r)
    \/ \E n \in ReadNumbers : \E i \in ReadNumbers : Fast5File_add_read(n, i)
    \/ \E n \in ReadNumbers : \E d \in Samples : Fast5File_add_raw_data(n, d)
    \/ \E d \in Samples : Fast5Read_add_raw_data(d)
    \/ Fast5Read_add_read
    \/ \E r \in ReadNumbers : MultiFast5File_create_empty_read(r)
    \/ \E r \in ReadNumbers : \E d \in Samples : MultiFast5File_add_existing_read(r, d)
    \/ \E op \in MetaOps : MetaWrite(op)

SpecFile == InitFile /\ [][NextFile]_vars

\* ------------------------------------------------------------------ properties of the file objects
\* the object add_raw_data is called on is open, writeable and its file is open
RawTargetWriteable ==
    IF f_kind = "Fast5File" THEN assert_writeable(is_open, f_mode) = "ok"
    ELSE assert_writeable(read_is_open, f_read.mode) = "ok" /\ f_read.handle = "Group"

\* C11: raw data is written at most once per read.  An add_raw_data call on a
\* writeable object succeeds only for a read that has no samples, and stores
\* its data; for a read that has samples it fails with KeyError and leaves
\* them as they are; after a successful call on a Fast5File the catalog entry
\* of the read number has has_raw_data set.
C11_RawDataOnce ==
    [][(f_call'.op = "add_raw_data" /\ RawTargetWriteable) =>
          LET n == f_call'.arg
          IN  /\ f_disk[n].signal # None =>
                    /\ f_call'.err = "KeyError"
                    /\ f_disk'[n].signal = f_disk[n].signal
              /\ f_call'.err = "ok" =>
                    /\ f_disk[n].signal = None
                    /\ f_disk'[n].signal = f_call'.data
                    /\ f_kind = "Fast5File" =>
                          f_status'.read_info[f_status'.read_number_map[n] + 1].has_raw_data]_vars

\* close() has been called on the container; on the container the Fast5Read
\* came from
ContainerClosed == f_handle = "None"
ReadContainerClosed == f_read.made /\ f_read.handle = "ClosedGroup"

\* C12: a closed container refuses every further operation.  An assert_open
\* call on a container after its close(), or on a read whose container has
\* been closed, raises the 'not open' IOError.
C12_ClosedRefuses ==
    /\ (f_call.op = "assert_open" /\ ContainerClosed) => f_call.err = "IOError: not open"
    /\ (f_call.op = "read.assert_open" /\ ReadContainerClosed) => f_call.err = "IOError: not open"

\* the mutating operations, and the mode of the object an operation is called
\* on: the container for add_read, create_empty_read and add_existing_read and
\* for every operation of a Fast5File, the Fast5Read otherwise
MutatingOps == {"add_raw_data", "add_analysis", "add_read", "set_tracking_id", "add_tracking_id",
                "add_channel_info", "add_context_tags", "add_chain",
                "create_empty_read", "add_existing_read"}
CalledMode(op) ==
    IF f_kind = "Fast5File" \/ op \in {"create_empty_read", "add_existing_read"}
    THEN f_mode ELSE f_read.mode

\* C13: a mutating operation on an object opened in mode 'r' ends with an
\* error and changes neither the file nor the object.
C13_ReadOnlyRejects ==
    [][(f_call'.op \in MutatingOps /\ CalledMode(f_call'.op) = "r") =>
          /\ f_call'.err # "ok"
          /\ UNCHANGED file_state]_vars

\* add_raw_data was refused on a read-only object for a read without samples
C13_Witness ==
    /\ f_call.op = "add_raw_data"
    /\ f_call.err = "IOError: read-only mode"
    /\ f_disk[f_call.arg].present
    /\ f_disk[f_call.arg].signal = None

\* C18: in every state the catalog's maps are injective and consistent with
\* read_info: entry i is mapped to i by its read_number and by its read_id,
\* and no two entries have the same read id.
C18_CatalogConsistent ==
    LET read_info == f_status.read_info
        read_number_map == f_status.read_number_map
        read_id_map == f_status.read_id_map
    IN  /\ \A i \in 1..Len(read_info) :
              /\ read_info[i].read_number \in DOMAIN read_number_map
              /\ read_number_map[read_info[i].read_number] = i - 1
              /\ read_info[i].read_id \in DOMAIN read_id_map
              /\ read_id_map[read_info[i].read_id] = i - 1
        /\ \A i, j \in 1..Len(read_info) : read_info[i].read_id = read_info[j].read_id => i = j
        /\ \A k, l \in DOMAIN read_number_map : read_number_map[k] = read_number_map[l] => k = l
        /\ \A k, l \in DOMAIN read_id_map : read_id_map[k] = read_id_map[l] => k = l


\* ------------------------------------------------------------------ get_latest_analysis
\* the characters of the names used, in the order of their code points
Digits == <<"0", "1", "2", "3", "4", "5", "6", "7", "8", "9">>
Alphabet == Digits \o <<"A", "B", "_">>
Ord(c) == CHOOSE i \in 1..Len(Alphabet) : Alphabet[i] = c

\* name[:-4] and name[-3:]
Drop4(name) == SubSeq(name, 1, Len(name) - 4)
Last3(name) == SubSeq(name, IF Len(name) > 3 THEN Len(name) - 2 ELSE 1, Len(name))

\* int(s) of a string of digits
RECURSIVE int(_)
int(s) == IF s = <<>> THEN 0 ELSE 10 * int(Front(s)) + (Ord(Last(s)) - 1)

\* str(n) of a natural number
RECURSIVE str(_)
str(n) == IF n < 10 THEN <<Digits[n + 1]>> ELSE str(n \div 10) \o <<Digits[(n % 10) + 1]>>

\* s.zfill(width)
RECURSIVE zfill(_, _)
zfill(s, width) == IF Len(s) >= width THEN s ELSE zfill(<<"0">> \o s, width)

\* a < b in the order sorted() puts strings
RECURSIVE StrLess(_, _)
StrLess(a, b) ==
    IF a = <<>> THEN b # <<>>
    ELSE IF b = <<>> THEN FALSE
    ELSE IF Head(a) # Head(b) THEN Ord(Head(a)) < Ord(Head(b))
    ELSE StrLess(Tail(a), Tail(b))

\* sorted(selected)[-1]
SortedLast(selected) == CHOOSE x \in selected : \A y \in selected : y = x \/ StrLess(y, x)

\* '{}_{}'.format(group_base, str(count).zfill(3))
GroupName(group_base, count) == group_base \o <<"_">> \o zfill(str(count), 3)

\* list_analyses(): every group made by add_analysis has a component
\* attribute and is listed
list_analyses(groups) == groups

get_latest_analysis(groups, group_base, increment) ==
    LET selected == {g \in list_analyses(groups) : Drop4(g) = group_base}
        result == SortedLast(selected)
    IN  IF selected = {} THEN (IF increment THEN group_base \o <<"_", "0", "0", "0">> ELSE NoName)
        ELSE IF increment THEN GroupName(group_base, int(Last3(result)) + 1)
        ELSE result

\* the base names and the indexes of the group names passed to add_analysis
Bases == {<<"A">>, <<"B">>}
AnaIndexes == {0, 9, 99, 999}
GivenNames == {GroupName(b, n) : b \in Bases, n \in AnaIndexes}

InitAnalysis ==
    /\ NoRestButAna
    /\ a_groups = {}
    /\ a_call = AnaCall("open", NoName, FALSE, NoName)
    /\ a_ops = 0

AnaStep(call) ==
    /\ a_ops < MaxAnaOps
    /\ a_call' = call
    /\ a_ops' = a_ops + 1
    /\ UNCHANGED not_ana_vars

\* add_analysis(component, group_name, attrs) on a writeable object;
\* _add_group fails if the group exists
add_analysis(group_name) ==
    IF group_name \in a_groups
    THEN AnaStep(AnaCall("add_analysis", NoName, FALSE, <<"ValueError">>)) /\ UNCHANGED a_groups
    ELSE AnaStep(AnaCall("add_analysis", NoName, FALSE, group_name)) /\ a_groups' = a_groups \cup {group_name}

\* a call of get_latest_analysis(group_base, increment)
LatestAnalysis(group_base, increment) ==
    /\ AnaStep(AnaCall("get_latest_analysis", group_base, increment,
                       get_latest_analysis(a_groups, group_base, increment)))
    /\ UNCHANGED a_groups

\* the name get_latest_analysis returned last, if it returned one
ReturnedName ==
    IF a_call.op = "get_latest_analysis" /\ a_call.result # NoName THEN {a_call.result} ELSE {}

NextAnalysis ==
    \/ \E name \in GivenNames \cup ReturnedName : add_analysis(name)
    \/ \E b \in Bases : \E inc \in BOOLEAN : LatestAnalysis(b, inc)

SpecAnalysis == InitAnalysis /\ [][NextAnalysis]_vars

\* the groups named <base>_NNN with three digits, and the index of one
Named(base) ==
    {g \in a_groups : Len(g) = Len(base) + 4 /\ SubSeq(g, 1, Len(base) + 1) = base \o <<"_">>}
IndexOf(g) == 100 * (Ord(g[Len(g) - 2]) - 1) + 10 * (Ord(g[Len(g) - 1]) - 1) + (Ord(g[Len(g)]) - 1)
HighestNamed(base) == CHOOSE g \in Named(base) : \A h \in Named(base) : IndexOf(h) <= IndexOf(g)

\* C14: get_latest_analysis(base, increment) returns the highest-indexed
\* group named base_NNN (None if there is none) and, with increment, the name
\* with the next index (base_000 if there is none); the name returned with
\* increment is not the name of an existing group.
C14_LatestAnalysis ==
    a_call.op = "get_latest_analysis" =>
        LET base == a_call.base
        IN  /\ ~a_call.increment =>
                  a_call.result = IF Named(base) = {} THEN NoName ELSE HighestNamed(base)
            /\ a_call.increment =>
                  /\ a_call.result = GroupName(base, IF Named(base) = {} THEN 0
                                                     ELSE IndexOf(HighestNamed(base)) + 1)
                  /\ a_call.result \notin a_groups

\* ------------------------------------------------------------------ the copy of one read
\* the registered codecs: str(comp), str(comp.compression), comp.compression_opts
VBZ == [name |-> "vbz", compression |-> "32020", compression_opts |-> <<1, 2, 1, 1>>]
VBZ_V0 == [name |-> "vbz_legacy_v0", compression |-> "32020", compression_opts |-> <<0, 2, 1, 1>>]
GZIP == [name |-> "gzip", compression |-> "gzip", compression_opts |-> <<1>>]
COMPRESSION_MAP == {VBZ, VBZ_V0, GZIP}

\* comp.filter_settings, a dict, as the set of its items
filter_settings(comp) == {<<comp.compression, comp.compression_opts>>}
\* the keys of a filter dict
Keys(filters) == {f[1] : f \in filters}

\* the filters a Signal dataset can have: those of a registered codec, those
\* Fast5File._save_raw writes (gzip at h5py's default level, shuffle), none
SaveRawFilters == {<<"gzip", <<4>>>>, <<"shuffle", <<1>>>>}
SourceFilters == {filter_settings(comp) : comp \in COMPRESSION_MAP} \cup {SaveRawFilters, {}}

\* str(target_compression) in read_to_add.raw_compression_filters
InFilters(target, filters) == target.name \in Keys(filters)

OPTIONAL_READ_GROUPS == {"Analyses"}
\* the subtrees a read can have, in the order h5py iterates them; in a single
\* read file the last three lie under UniqueGlobalKey
Subtrees == <<"Analyses", "PreviousReadInfo", "Raw", "channel_id", "context_tags", "tracking_id">>
SubtreeSet == {Subtrees[i] : i \in 1..Len(Subtrees)}
UniqueGroups == {"channel_id", "context_tags", "tracking_id"}

\* _add_read_from_multi: the loop over the subgroups of the source read
RECURSIVE FromMultiLoop(_, _, _, _, _, _, _)
FromMultiLoop(i, groups, filters, target, sanitize, map, res) ==
    IF i > Len(Subtrees) THEN res
    ELSE LET subgroup == Subtrees[i]
             next(m, r) == FromMultiLoop(i + 1, groups, filters, target, sanitize, m, r)
         IN  IF subgroup \notin groups THEN next(map, res)
             ELSE IF sanitize /\ subgroup \in OPTIONAL_READ_GROUPS THEN next(map, res)
             ELSE IF subgroup = "Raw" /\ target # NoCompression /\ ~InFilters(target, filters)
             THEN next(map, [res EXCEPT !.out = @ \cup {subgroup}, !.raw = "reencode"])
             ELSE IF subgroup \in Groups /\ "tracking_id" \notin groups
             THEN \* read_to_add.run_id
                  [res EXCEPT !.err = "KeyError"]
             ELSE IF subgroup \in Groups /\ map.entry /\ subgroup \in map.has
             THEN \* hard link
                  next(map, [res EXCEPT !.out = @ \cup {subgroup}])
             ELSE next(IF subgroup \in Groups THEN MapEntry(TRUE, res.out \cap Groups) ELSE map,
                       [res EXCEPT !.out = @ \cup {subgroup},
                                   !.raw = IF subgroup = "Raw" THEN "copy" ELSE @])
add_read_from_multi(groups, filters, target, sanitize, map) ==
    FromMultiLoop(1, groups, filters, target, sanitize, map, CopyResult({}, "none", "ok"))

\* _add_read_from_single: the branches of its loop, per subtree
add_read_from_single(groups, filters, target, sanitize, map) ==
    LET kept(subgroup) ==
            IF subgroup \notin groups THEN FALSE
            ELSE IF subgroup \in UniqueGroups
            THEN \* for unique_group in read_to_add.handle["UniqueGlobalKey"]
                 IF subgroup \in Groups /\ map.entry THEN subgroup \in map.has ELSE TRUE
            ELSE IF sanitize /\ subgroup \in OPTIONAL_READ_GROUPS THEN FALSE
            ELSE IF subgroup = "Raw" THEN TRUE
            ELSE ~sanitize
        raw == IF "Raw" \notin groups THEN "none"
               ELSE IF target = NoCompression \/ InFilters(target, filters) THEN "copy"
               ELSE "reencode"
    IN  IF groups \cap UniqueGroups # {} /\ "tracking_id" \notin groups
        THEN CopyResult({}, "none", "KeyError")
        ELSE CopyResult({g \in SubtreeSet : kept(g)}, raw, "ok")

\* compress_single_read(output_f5, read_to_copy, target_compression, sanitize)
compress_single_read(groups, filters, target, sanitize) ==
    IF "Raw" \notin groups THEN CopyResult({}, "none", "KeyError")
    ELSE IF InFilters(target, filters) THEN CopyResult(groups, "copy", "ok")
    ELSE CopyResult({g \in groups : ~(g # "Raw" /\ sanitize /\ g \in OPTIONAL_READ_GROUPS)},
                    "reencode", "ok")

CopyFunctions == {"_add_read_from_multi", "_add_read_from_single", "compress_single_read"}

\* a source read (of a valid file if it is a single read file), the arguments
\* and the run_id_map entry of the output file
InitCopy ==
    /\ NoRestButCopy
    /\ c_fn \in CopyFunctions
    /\ c_groups \in SUBSET SubtreeSet
    /\ c_fn # "_add_read_from_multi" => {"channel_id", "tracking_id"} \subseteq c_groups
    /\ c_filters \in SourceFilters
    /\ "Raw" \notin c_groups => c_filters = {}
    /\ c_target \in COMPRESSION_MAP \cup {NoCompression}
    /\ c_fn = "compress_single_read" => c_target # NoCompression
    /\ c_sanitize \in BOOLEAN
    /\ c_map \in {MapEntry(e, has) : e \in BOOLEAN, has \in SUBSET Groups}
    /\ ~c_map.entry => c_map.has = {}
    /\ c_fn = "compress_single_read" => ~c_map.entry
    /\ c_res = CopyResult({}, "none", "ok")
    /\ c_pc = "call"

\* MultiFast5File.add_existing_read(read_to_add, target_compression, sanitize)
add_existing_read_call ==
    /\ c_pc = "call"
    /\ c_fn \in {"_add_read_from_multi", "_add_read_from_single"}
    /\ c_res' = IF c_fn = "_add_read_from_multi"
                THEN add_read_from_multi(c_groups, c_filters, c_target, c_sanitize, c_map)
                ELSE add_read_from_single(c_groups, c_filters, c_target, c_sanitize, c_map)
    /\ c_pc' = "returned"
    /\ UNCHANGED <<c_fn, c_groups, c_filters, c_target, c_sanitize, c_map>>
    /\ UNCHANGED not_copy_vars

compress_single_read_call ==
    /\ c_pc = "call"
    /\ c_fn = "compress_single_read"
    /\ c_res' = compress_single_read(c_groups, c_filters, c_target, c_sanitize)
    /\ c_pc' = "returned"
    /\ UNCHANGED <<c_fn, c_groups, c_filters, c_target, c_sanitize, c_map>>
    /\ UNCHANGED not_copy_vars

NextCopy == add_existing_read_call \/ compress_single_read_call

SpecCopy == InitCopy /\ [][NextCopy]_vars

\* C15: with a target codec, the Raw group is copied verbatim exactly when the
\* source dataset already has the target's filter id and options, and is
\* re-encoded exactly when it has not.
C15_CopyIffSameCodec ==
    (c_pc = "returned" /\ c_res.err = "ok" /\ "Raw" \in c_groups /\ c_target # NoCompression) =>
        /\ c_res.raw = "copy" <=> filter_settings(c_target) = c_filters
        /\ c_res.raw = "reencode" <=> filter_settings(c_target) # c_filters

\* C16: add_existing_read gives the output read every subtree of the source
\* read, except that with sanitize the subtrees of OPTIONAL_READ_GROUPS, and
\* only those, are left out.
C16_CopiesAllButOptional ==
    (c_pc = "returned" /\ c_res.err = "ok" /\ c_fn # "compress_single_read") =>
        c_res.out = c_groups \ (IF c_sanitize THEN OPTIONAL_READ_GROUPS ELSE {})

\* C27: add_existing_read of a read that has tracking_id and context_tags
\* gives the new read both groups, linked or copied, whatever run_id_map
\* holds for the run, a read that lacks the groups included.
C27_BothGroupsPresent ==
    (c_pc = "returned" /\ c_res.err = "ok" /\ c_fn # "compress_single_read"
        /\ Groups \subseteq c_groups) => Groups \subseteq c_res.out

\* ------------------------------------------------------------------ compress_batch
\* Pool(min(threads, len(file_list)))
ZipWorkers == Min2(z_threads, NumFiles)

InitZip ==
    /\ NoRestButZip
    /\ z_in_place \in BOOLEAN
    /\ z_threads \in 1..NumFiles
    /\ z_bad \in {b \in SUBSET InFiles : Cardinality(b) <= MaxCorrupt}
    /\ z_input = [f \in InFiles |-> "original"]
    /\ z_output = [f \in InFiles |-> "absent"]
    /\ z_task = [f \in InFiles |-> "unsubmitted"]
    /\ z_pc = "submit"

\* the loop of compress_batch: pool.apply_async(compress_file, ..., callback=update)
\* for the next file of file_list
ZipSubmit(f) ==
    /\ z_pc = "submit"
    /\ z_task[f] = "unsubmitted"
    /\ \A g \in InFiles : g < f => z_task[g] # "unsubmitted"
    /\ z_task' = [z_task EXCEPT ![f] = "queued"]
    /\ UNCHANGED <<z_in_place, z_threads, z_bad, z_input, z_output, z_pc>>
    /\ UNCHANGED not_zip_vars

\* pool.close() after the loop
ZipClose ==
    /\ z_pc = "submit"
    /\ \A f \in InFiles : z_task[f] # "unsubmitted"
    /\ z_pc' = "join"
    /\ UNCHANGED <<z_in_place, z_threads, z_bad, z_input, z_output, z_task>>
    /\ UNCHANGED not_zip_vars

\* a free worker takes the oldest queued task and compress_file opens
\* output_path (mode 'a'); on a bad file it may fail before that
compress_file_start(f) ==
    /\ z_task[f] = "queued"
    /\ \A g \in InFiles : g < f => z_task[g] # "queued"
    /\ Cardinality({g \in InFiles : z_task[g] = "running"}) < ZipWorkers
    /\ \/ /\ z_task' = [z_task EXCEPT ![f] = "running"]
          /\ z_output' = [z_output EXCEPT ![f] = "partial"]
       \/ /\ f \in z_bad
          /\ z_task' = [z_task EXCEPT ![f] = "failed"]
          /\ UNCHANGED z_output
    /\ UNCHANGED <<z_in_place, z_threads, z_bad, z_input, z_pc>>
    /\ UNCHANGED not_zip_vars

\* compress_file leaves its with block and returns (input_file, output_file)
compress_file_return(f) ==
    /\ z_task[f] = "running"
    /\ f \notin z_bad
    /\ z_task' = [z_task EXCEPT ![f] = "returned"]
    /\ z_output' = [z_output EXCEPT ![f] = "complete"]
    /\ UNCHANGED <<z_in_place, z_threads, z_bad, z_input, z_pc>>
    /\ UNCHANGED not_zip_vars

\* compress_file raises while it copies: the exception is logged and, with no
\* error_callback, dropped by the pool
compress_file_raise(f) ==
    /\ z_task[f] = "running"
    /\ f \in z_bad
    /\ z_task' = [z_task EXCEPT ![f] = "failed"]
    /\ UNCHANGED <<z_in_place, z_threads, z_bad, z_input, z_output, z_pc>>
    /\ UNCHANGED not_zip_vars

\* the pool calls the callback with the result of a task that returned
MoveWhen(f) == z_task[f] = "returned"

\* update(result), the callback: shutil.move(output_path, input_path) if in_place
update(f) ==
    /\ MoveWhen(f)
    /\ z_task' = [z_task EXCEPT ![f] = "done"]
    /\ IF z_in_place
       THEN /\ z_input' = [z_input EXCEPT ![f] = IF z_output[f] = "complete" THEN "compressed" ELSE "truncated"]
            /\ z_output' = [z_output EXCEPT ![f] = "absent"]
       ELSE UNCHANGED <<z_input, z_output>>
    /\ UNCHANGED <<z_in_place, z_threads, z_bad, z_pc>>
    /\ UNCHANGED not_zip_vars

\* pool.join() returns, pbar.finish()
ZipJoin ==
    /\ z_pc = "join"
    /\ \A f \in InFiles : z_task[f] \in {"done", "failed"}
    /\ z_pc' = "returned"
    /\ UNCHANGED <<z_in_place, z_threads, z_bad, z_input, z_output, z_task>>
    /\ UNCHANGED not_zip_vars

NextZip ==
    \/ \E f \in InFiles : ZipSubmit(f)
    \/ ZipClose
    \/ \E f \in InFiles : compress_file_start(f)
    \/ \E f \in InFiles : compress_file_return(f)
    \/ \E f \in InFiles : compress_file_raise(f)
    \/ \E f \in InFiles : update(f)
    \/ ZipJoin

SpecZip == InitZip /\ [][NextZip]_vars

\* the file names in the input folder: the inputs, and '<input>.tmp.compressed'
\* while an in-place output exists
TmpNames == {f \in InFiles : z_in_place /\ z_output[f] # "absent"}
ZipReturned == z_pc = "returned" /\ \A f \in InFiles : z_task[f] # "unsubmitted"

\* C17 as stated: after an in-place run the folder holds the names it held
\* before, and an input is replaced only by its completely written copy.
C17_InPlaceSameNames ==
    /\ [](ZipReturned /\ z_in_place => TmpNames = {})
    /\ [][\A f \in InFiles : z_input'[f] # z_input[f] =>
              z_output[f] = "complete" /\ z_input'[f] = "compressed"]_vars

\* ------------------------------------------------------------------ filename_mapping.txt
Tools == {"Fast5FilterWorker", "multi_to_single", "single_to_multi"}

RECURSIVE Lines(_, _)
Lines(line, n) == IF n = 0 THEN <<>> ELSE Append(Lines(line, n - 1), line)

\* with open(filename_mapping.txt, 'a') as output_table: one write per item
AppendLines(n) ==
    /\ t_exists' = TRUE
    /\ t_table' = t_table \o Lines("new", n)
    /\ t_written' = t_written + n

\* before the run: the output folder may hold the table of an earlier run
InitTable ==
    /\ NoRestButTable
    /\ t_tool \in Tools
    /\ t_exists \in BOOLEAN
    /\ t_table \in {Lines("old", n) : n \in (IF t_exists THEN 0..MaxOldLines ELSE {0})}
    /\ t_written = 0
    /\ t_left \in 1..MaxUnits
    /\ t_pc = "start"

\* Fast5FilterWorker.__init__: unlink the table if it exists
Fast5FilterWorker_init ==
    /\ t_tool = "Fast5FilterWorker"
    /\ t_pc = "start"
    /\ t_exists' = FALSE
    /\ t_table' = <<>>
    /\ t_pc' = "running"
    /\ UNCHANGED <<t_tool, t_written, t_left>>
    /\ UNCHANGED not_table_vars

\* Fast5FilterWorker._update_file_lists(reads, out_file, in_file), from
\* _launch_sync_tasks, _callback or _error_callback (reads = set())
Fast5FilterWorker_update_file_lists(reads) ==
    /\ t_tool = "Fast5FilterWorker"
    /\ t_pc = "running"
    /\ t_left > 0
    /\ AppendLines(reads)
    /\ t_left' = t_left - 1
    /\ UNCHANGED <<t_tool, t_pc>>
    /\ UNCHANGED not_table_vars

\* batch_convert_multi_files_to_single up to the loop that submits the tasks:
\* os.makedirs(output_folder) if it is missing
batch_convert_multi_files_to_single ==
    /\ t_tool = "multi_to_single"
    /\ t_pc = "start"
    /\ t_pc' = "running"
    /\ UNCHANGED <<t_tool, t_exists, t_table, t_written, t_left>>
    /\ UNCHANGED not_table_vars

\* its callback update(result): a line per single read file written from the
\* input file (none for an input that failed)
multi_to_single_update(filenames) ==
    /\ t_tool = "multi_to_single"
    /\ t_pc = "running"
    /\ t_left > 0
    /\ AppendLines(filenames)
    /\ t_left' = t_left - 1
    /\ UNCHANGED <<t_tool, t_pc>>
    /\ UNCHANGED not_table_vars

\* batch_convert_single_to_multi up to the loop that submits the batches
batch_convert_single_to_multi ==
    /\ t_tool = "single_to_multi"
    /\ t_pc = "start"
    /\ t_pc' = "running"
    /\ UNCHANGED <<t_tool, t_exists, t_table, t_written, t_left>>
    /\ UNCHANGED not_table_vars

\* its callback update(result): a line per input file added to the batch's
\* output file
single_to_multi_update(filenames) ==
    /\ t_tool = "single_to_multi"
    /\ t_pc = "running"
    /\ t_left > 0
    /\ AppendLines(filenames)
    /\ t_left' = t_left - 1
    /\ UNCHANGED <<t_tool, t_pc>>
    /\ UNCHANGED not_table_vars

\* every unit of work has reported: run_batch is over / pool.join() returns
TableReturn ==
    /\ t_pc = "running"
    /\ t_left = 0
    /\ t_pc' = "returned"
    /\ UNCHANGED <<t_tool, t_exists, t_table, t_written, t_left>>
    /\ UNCHANGED not_table_vars

NextTable ==
    \/ Fast5FilterWorker_init
    \/ \E reads \in 0..MaxLines : Fast5FilterWorker_update_file_lists(reads)
    \/ batch_convert_multi_files_to_single
    \/ batch_convert_single_to_multi
    \/ \E filenames \in 0..MaxLines : multi_to_single_update(filenames)
    \/ \E filenames \in 0..MaxLines : single_to_multi_update(filenames)
    \/ TableReturn

SpecTable == InitTable /\ [][NextTable]_vars

\* C19: the table is emptied once, at the start of the run, and only appended
\* to afterwards, so after the run it holds exactly the lines the run wrote;
\* for each of the three tools.
C19_TableOfThisRun ==
    /\ [](t_pc = "returned" /\ t_left = 0 /\ t_tool \in Tools =>
              t_table = Lines("new", t_written))
    /\ [][t_pc # "start" =>
              /\ Len(t_table') >= Len(t_table)
              /\ SubSeq(t_table', 1, Len(t_table)) = t_table]_vars

\* ------------------------------------------------------------------ update_legacy_file
\* file versions in tenths: 0.6 is 6, 1.0 is 10, 1.1 is 11, 2.0 is 20
CURRENT_FAST5_VERSION == 20
Version_1_1 == 11
LegacyVersions == {6, 10}
\* os.path.basename(fname), the read id of a legacy read without read_id
basename == NumNumbers + 1

\* a read group, Raw/Reads/Read_<n> or Analyses/EventDetection_00x/Reads/Read_<n>:
\* its read_id attribute (None: no such attribute), its duration attribute and
\* its dataset: "Signal", "Data" or "none" under Raw; for Events "variance"
\* (the old columns), "stdv" or "none"
NoReadGroup == [present |-> FALSE, read_id |-> None, duration |-> None, data |-> "none"]
LegacyGroup(read_id, duration, data) ==
    [present |-> TRUE, read_id |-> read_id, duration |-> duration, data |-> data]
\* an Analyses/EventDetection_00x group with its Reads group
NoEventDetection == [present |-> FALSE, reads |-> [n \in ReadNumbers |-> NoReadGroup]]

\* (a constructor that stores another duration than the one it is given)
ReadInfo_init_longer(read_number, read_id, duration) ==
    [read_number |-> read_number, read_id |-> read_id, duration |-> duration + 1,
     has_raw_data |-> FALSE, has_event_data |-> FALSE]
\* ReadInfo(read_number, read_id, start_time, duration, ...)
ReadInfo_init(read_number, read_id, duration) ==
    [read_number |-> read_number, read_id |-> read_id, duration |-> duration,
     has_raw_data |-> FALSE, has_event_data |-> FALSE]

\* the fields of Fast5Info at the start of __init__; raised: the constructor
\* left with an exception
NewStatus ==
    [valid |-> TRUE, version |-> 0, read_info |-> <<>>, read_number_map |-> <<>>,
     read_id_map |-> <<>>, raised |-> FALSE]

\* self.read_info.append(read_info) and the two map entries
Fast5Info_append(status, read_info) ==
    [status EXCEPT !.read_info = Append(@, read_info),
                   !.read_number_map = DictSet(@, read_info.read_number, Len(status.read_info)),
                   !.read_id_map = DictSet(@, read_info.read_id, Len(status.read_info))]

\* the loop over Raw/Reads; last_id is the local read_id left by the iteration
\* before (None: unbound)
RECURSIVE Fast5Info_raw(_, _, _, _)
Fast5Info_raw(raw, n, status, last_id) ==
    IF n > NumNumbers THEN status
    ELSE IF ~raw[n].present THEN Fast5Info_raw(raw, n + 1, status, last_id)
    ELSE LET g == raw[n]
             legacy == status.version < Version_1_1
         IN  IF g.read_id = None /\ ~legacy /\ last_id = None
             THEN [status EXCEPT !.valid = FALSE, !.raised = TRUE]
             ELSE LET read_id == IF g.read_id # None THEN g.read_id
                                 ELSE IF legacy THEN basename ELSE last_id
                      has_raw_data == g.data = "Signal" \/ (legacy /\ g.data = "Data")
                      valid == /\ status.valid
                               /\ (g.read_id # None \/ legacy)
                               /\ ~(g.data # "Signal" /\ legacy /\ g.data # "Data")
                      read_info == [ReadInfo_init(n, read_id, g.duration)
                                       EXCEPT !.has_raw_data = has_raw_data]
                  IN  Fast5Info_raw(raw, n + 1,
                                    Fast5Info_append([status EXCEPT !.valid = valid], read_info),
                                    read_id)

\* the loop over the Reads of the latest EventDetection group
RECURSIVE Fast5Info_events(_, _, _)
Fast5Info_events(reads, n, status) ==
    IF n > NumNumbers THEN status
    ELSE IF ~reads[n].present THEN Fast5Info_events(reads, n + 1, status)
    ELSE LET g == reads[n]
             legacy == status.version < Version_1_1
         IN  IF g.read_id = None /\ ~legacy
             THEN Fast5Info_events(reads, n + 1, [status EXCEPT !.valid = FALSE])
             ELSE LET read_id == IF g.read_id # None THEN g.read_id ELSE basename
                      has_event_data == g.data # "none"
                  IN  IF n \in DOMAIN status.read_number_map
                      THEN Fast5Info_events(reads, n + 1,
                               [status EXCEPT !.read_info[status.read_number_map[n] + 1].has_event_data =
                                                  has_event_data])
                      ELSE Fast5Info_events(reads, n + 1,
                               Fast5Info_append([status EXCEPT !.valid = @ /\ legacy],
                                                [ReadInfo_init(n, read_id, g.duration)
                                                    EXCEPT !.has_event_data = has_event_data]))

\* Fast5Info(fname) on a file with UniqueGlobalKey/channel_id and a channel number
Fast5Info_init(file) ==
    LET s0 == [NewStatus EXCEPT !.version = file.file_version]
        s1 == [s0 EXCEPT !.valid = ~(~file.tracking_id /\ s0.version >= Version_1_1)]
        has_raw == \E n \in ReadNumbers : file.raw[n].present
        s2 == IF has_raw THEN Fast5Info_raw(file.raw, 1, s1, None)
              ELSE [s1 EXCEPT !.valid = @ /\ s1.version < Version_1_1]
        \* analyses[::-1]: the first EventDetection group that has Reads
        latest == IF file.ed[1].present THEN file.ed[1] ELSE file.ed[0]
        s3 == IF s2.raised \/ ~file.analyses \/ ~latest.present THEN s2
              ELSE Fast5Info_events(latest.reads, 1, s2)
    IN  IF s3.version < Version_1_1 /\ Len(s3.read_info) = 0 THEN [s3 EXCEPT !.valid = FALSE] ELSE s3

\* update_legacy_file: the loop over status.read_info
LegacyRaw(file, status) ==
    [n \in ReadNumbers |->
        IF n \in DOMAIN status.read_number_map
        THEN LET read_info == status.read_info[status.read_number_map[n] + 1]
             IN  LegacyGroup(read_info.read_id, read_info.duration, file.raw[n].data)
        ELSE file.raw[n]]

\* update_legacy_file: the loop over Analyses/EventDetection_000/Reads; a read
\* number that is not in status.read_number_map ends it with KeyError
RECURSIVE LegacyEvents(_, _, _)
LegacyEvents(reads, n, status) ==
    IF n > NumNumbers THEN [reads |-> reads, err |-> "ok"]
    ELSE IF ~reads[n].present THEN LegacyEvents(reads, n + 1, status)
    ELSE IF n \notin DOMAIN status.read_number_map THEN [reads |-> reads, err |-> "KeyError"]
    ELSE LET read_info == status.read_info[status.read_number_map[n] + 1]
         IN  LegacyEvents([reads EXCEPT ![n].read_id = read_info.read_id,
                                        ![n].data = IF @ = "variance" THEN "stdv" ELSE @],
                          n + 1, status)

\* Fast5File.update_legacy_file(fname): the file it leaves and how it ends
update_legacy_file_of(file) ==
    LET status == Fast5Info_init(file)
    IN  IF status.raised THEN [file |-> file, err |-> "UnboundLocalError"]
        ELSE IF ~status.valid THEN [file |-> file, err |-> "IOError"]
        ELSE LET f1 == [file EXCEPT !.raw = LegacyRaw(file, status),
                                    !.analyses = TRUE, !.tracking_id = TRUE]
                 ev == IF status.version < Version_1_1 /\ file.analyses /\ file.ed[0].present
                       THEN LegacyEvents(file.ed[0].reads, 1, status)
                       ELSE [reads |-> file.ed[0].reads, err |-> "ok"]
                 f2 == [f1 EXCEPT !.ed[0].reads = ev.reads]
             IN  IF ev.err # "ok" THEN [file |-> f2, err |-> ev.err]
                 ELSE [file |-> [f2 EXCEPT !.file_version = CURRENT_FAST5_VERSION], err |-> "ok"]

\* the legacy files: version 0.6 or 1.0; reads with or without read_id
\* attributes; Raw reads with Signal, Data or neither; EventDetection_000 with
\* the old or the new event columns; perhaps a later EventDetection_001
RawKinds == {"absent", "Signal", "Data", "none"}
LegacyFile(version, ids, columns, raw, ev0, ev1) ==
    [file_version |-> version,
     tracking_id |-> FALSE,
     analyses |-> (\E n \in ReadNumbers : ev0[n] # None) \/ ev1 # {},
     raw |-> [n \in ReadNumbers |->
                 IF raw[n] = "absent" THEN NoReadGroup
                 ELSE LegacyGroup(IF ids THEN n ELSE None, 1, raw[n])],
     ed |-> [x \in 0..1 |->
                IF x = 0
                THEN [present |-> \E n \in ReadNumbers : ev0[n] # None,
                      reads |-> [n \in ReadNumbers |->
                                    IF ev0[n] = None THEN NoReadGroup
                                    ELSE LegacyGroup(IF ids THEN n ELSE None, ev0[n], columns)]]
                ELSE [present |-> ev1 # {},
                      reads |-> [n \in ReadNumbers |->
                                    IF n \notin ev1 THEN NoReadGroup
                                    ELSE LegacyGroup(IF ids THEN n ELSE None, 1, "stdv")]]]]
InitLegacy ==
    /\ NoRestButLegacy
    /\ \E version \in LegacyVersions, ids \in BOOLEAN, columns \in {"variance", "stdv"},
          raw \in [ReadNumbers -> RawKinds], ev0 \in [ReadNumbers -> {None} \cup Samples],
          ev1 \in SUBSET ReadNumbers :
            u_file = LegacyFile(version, ids, columns, raw, ev0, ev1)
    /\ u_before = NewStatus
    /\ u_after = NewStatus
    /\ u_err = "ok"
    /\ u_first = None
    /\ u_again = "none"
    /\ u_pc = "start"

\* Fast5File.update_legacy_file(fname)
update_legacy_file ==
    /\ u_pc = "start"
    /\ u_before' = Fast5Info_init(u_file)
    /\ u_file' = update_legacy_file_of(u_file).file
    /\ u_first' = update_legacy_file_of(u_file).file
    /\ u_err' = update_legacy_file_of(u_file).err
    /\ u_pc' = "updated"
    /\ UNCHANGED <<u_after, u_again>>
    /\ UNCHANGED not_legacy_vars

\* Fast5Info(fname) on the file update_legacy_file left
Fast5InfoAfter ==
    /\ u_pc = "updated"
    /\ u_after' = Fast5Info_init(u_file)
    /\ u_pc' = "scanned"
    /\ UNCHANGED <<u_file, u_before, u_err, u_first, u_again>>
    /\ UNCHANGED not_legacy_vars

\* Fast5File.update_legacy_file(fname) once more, on the file the first call left
update_legacy_file_again ==
    /\ u_pc = "scanned"
    /\ u_file' = update_legacy_file_of(u_file).file
    /\ u_again' = update_legacy_file_of(u_file).err
    /\ u_pc' = "again"
    /\ UNCHANGED <<u_before, u_after, u_err, u_first>>
    /\ UNCHANGED not_legacy_vars

NextLegacy ==
    \/ update_legacy_file
    \/ Fast5InfoAfter
    \/ update_legacy_file_again

SpecLegacy == InitLegacy /\ [][NextLegacy]_vars

\* the catalog of a scan: read_number, read_id and duration of each read
Catalog(status) ==
    {<<status.read_info[i].read_number, status.read_info[i].read_id, status.read_info[i].duration>> :
        i \in 1..Len(status.read_info)}

\* C20: update_legacy_file on a valid legacy file makes the file report the
\* current version, and the scan after it has the same number of reads, with
\* the same read_number, read_id and duration, as the scan before it.
C20_LegacyUpdatePreserves ==
    (u_pc = "scanned" /\ u_before.valid) =>
        /\ u_err = "ok"
        /\ u_after.version = CURRENT_FAST5_VERSION
        /\ Len(u_after.read_info) = Len(u_before.read_info)
        /\ Catalog(u_after) = Catalog(u_before)

\* the first update_legacy_file migrated the file to the current version
Migrated == u_err = "ok" /\ u_first.file_version = CURRENT_FAST5_VERSION

\* C21: update_legacy_file on a file it has already migrated is rejected or is
\* a no-op: the file after the second run, event tables and read attributes
\* included, is the file after the first.
C21_SecondUpdateNoOp ==
    (u_pc = "again" /\ Migrated) =>
        /\ u_again \in {"ok", "IOError"}
        /\ u_file = u_first

\* a version 0.6 file with old event columns and no read ids was migrated,
\* and the second run went through
C21_Witness ==
    /\ u_pc = "again" /\ Migrated /\ u_again = "ok"
    /\ u_before.version < Version_1_1
    /\ \E n \in ReadNumbers :
          /\ u_file.ed[0].reads[n].present
          /\ u_file.ed[0].reads[n].data = "stdv"
          /\ u_file.ed[0].reads[n].read_id = basename

\* ------------------------------------------------------------------ demux_fast5: the bins of one run
Bins == 1..NumBins

\* parse_summary_demultiplex: the read set of a bin; a worker is set up for
\* every bin the summary names
DemuxReadSet(b) == {r \in Reads : d_bin[r] = b}
Workers == {b \in Bins : DemuxReadSet(b) # {}}
DemuxOutputs(b) == CeilDiv(Cardinality(DemuxReadSet(b)), d_batch)

RECURSIVE TotalOutputs(_)
TotalOutputs(bs) ==
    IF bs = {} THEN 0
    ELSE LET b == CHOOSE x \in bs : TRUE
         IN  Min2(DemuxOutputs(b), NumFiles) + TotalOutputs(bs \ {b})

\* Fast5Demux.calculate_max_threads
calculate_max_threads == Min2(d_threads, TotalOutputs(Workers))

\* the summary, the input files and the arguments of a run that uses the pool
\* (max_threads > 1); workers_setup gives every worker its own copy of the
\* list of input files and its own output folder
InitDemux ==
    /\ NoRestButDemux
    /\ d_threads \in 2..NumFiles
    /\ d_batch \in 1..NumReads
    /\ d_bin \in [Reads -> Bins]
    /\ d_loc \in [Reads -> {None} \cup InFiles]
    \* read ids are names: of the summaries that differ by a renaming of the
    \* reads, the one that lists them by bin and by input file
    /\ \A r \in Reads : \A q \in Reads :
          r < q => \/ d_bin[r] < d_bin[q]
                   \/ d_bin[r] = d_bin[q] /\ d_loc[r] <= d_loc[q]
    /\ Min2(d_threads, TotalOutputs(Workers)) > 1
    /\ d_started = {}
    /\ d_read_set = [b \in Bins |-> DemuxReadSet(b)]
    /\ d_input = [b \in Bins |-> IF b \in Workers THEN [i \in 1..NumFiles |-> i] ELSE <<>>]
    /\ d_avail = [b \in Bins |-> ReversedSlots(DemuxOutputs(b))]
    /\ d_out = [b \in Bins |-> [o \in 0..(DemuxOutputs(b) - 1) |-> {}]]
    /\ d_tasks = [b \in Bins |-> 0]
    /\ d_pool = <<>>
    /\ d_pc = "launch"

\* (the input file is read but left on the list)
PoppedInput_peeked(input, i) == input[Len(input)]
\* _args_generator: the i-th in_file = self.input_f5s.pop() of one loop
PoppedInput(input, i) == input[Len(input) - i + 1]

\* _launch_async_tasks of the worker of bin b on the lists input and avail:
\* _args_generator pairs the last slot with the last input file while both
\* lists hold an entry, and every pair is submitted with the worker's
\* read_set and the room left in the slot
Pairs(input, avail) == Min2(Len(input), Len(avail))
Submitted(b, input, avail, out, rs) ==
    [i \in 1..Pairs(input, avail) |->
        [bin |-> b, in |-> PoppedInput(input, i), out |-> avail[Len(avail) - i + 1], rs |-> rs,
         count |-> d_batch - Cardinality(out[avail[Len(avail) - i + 1]])]]

\* Fast5Demux.run_batch: worker.run_batch(pool=pool) for the next worker, in
\* the order of sorted(self.read_sets)
DemuxRunBatch(b) ==
    /\ d_pc = "launch"
    /\ b \in Workers \ d_started
    /\ \A c \in Workers \ d_started : b <= c
    /\ LET n == Pairs(d_input[b], d_avail[b]) IN
        /\ d_pool' = d_pool \o Submitted(b, d_input[b], d_avail[b], d_out[b], d_read_set[b])
        /\ d_input' = [d_input EXCEPT ![b] = SubSeq(@, 1, Len(@) - n)]
        /\ d_avail' = [d_avail EXCEPT ![b] = SubSeq(@, 1, Len(@) - n)]
        /\ d_tasks' = [d_tasks EXCEPT ![b] = @ + n]
    /\ d_started' = d_started \cup {b}
    /\ d_pc' = IF Workers \ d_started = {b} THEN "wait" ELSE "launch"
    /\ UNCHANGED <<d_threads, d_batch, d_bin, d_loc, d_read_set, d_out>>
    /\ UNCHANGED not_demux_vars

\* the unit of the i-th task of the pool returns and the worker of its bin
\* runs _callback(result): _update_file_lists, _launch_async_tasks,
\* self.tasks.pop().  The pool's max_threads processes work on its oldest
\* tasks.
DemuxCallback(i) ==
    /\ d_pc \in {"launch", "wait"}
    /\ i \in 1..Len(d_pool) /\ i <= calculate_max_threads
    /\ LET u == d_pool[i]
           b == u.bin
       IN \E res \in extract_selected_reads({r \in Reads : d_loc[r] = u.in}, d_out[b][u.out],
                                            u.rs, u.count, {}) :
            LET input == IF res.in_left THEN Append(d_input[b], u.in) ELSE d_input[b]
                out == [d_out[b] EXCEPT ![u.out] = @ \cup res.found]
                rs == d_read_set[b] \ res.found
                avail == IF Cardinality(out[u.out]) < d_batch
                         THEN Append(d_avail[b], u.out) ELSE d_avail[b]
                n == Pairs(input, avail)
            IN  /\ d_pool' = RemoveAt(d_pool, i) \o Submitted(b, input, avail, out, rs)
                /\ d_input' = [d_input EXCEPT ![b] = SubSeq(input, 1, Len(input) - n)]
                /\ d_avail' = [d_avail EXCEPT ![b] = SubSeq(avail, 1, Len(avail) - n)]
                /\ d_out' = [d_out EXCEPT ![b] = out]
                /\ d_read_set' = [d_read_set EXCEPT ![b] = rs]
                /\ d_tasks' = [d_tasks EXCEPT ![b] = @ + n - 1]
    /\ UNCHANGED <<d_threads, d_batch, d_bin, d_loc, d_started, d_pc>>
    /\ UNCHANGED not_demux_vars

\* Fast5Demux.run_batch: while any(worker.tasks for worker in self.workers)
\* is false; the pool is left
DemuxWaitExit ==
    /\ d_pc = "wait"
    /\ \A b \in Bins : d_tasks[b] = 0
    /\ d_pc' = "done"
    /\ d_pool' = <<>>
    /\ UNCHANGED <<d_threads, d_batch, d_bin, d_loc, d_started, d_read_set, d_input, d_avail,
                   d_out, d_tasks>>
    /\ UNCHANGED not_demux_vars

NextDemux ==
    \/ \E b \in Bins : DemuxRunBatch(b)
    \/ \E i \in 1..Len(d_pool) : DemuxCallback(i)
    \/ DemuxWaitExit

SpecDemux == InitDemux /\ [][NextDemux]_vars

\* two units that are in flight at the same time
InFlightPairs == {p \in (1..Len(d_pool)) \X (1..Len(d_pool)) : p[1] < p[2]}
SameOutput(p) == d_pool[p[1]].bin = d_pool[p[2]].bin /\ d_pool[p[1]].out = d_pool[p[2]].out
SameInput(p) == d_pool[p[1]].in = d_pool[p[2]].in

\* C24 as stated: no output file and no input file belongs to two units that
\* are in flight at the same time, the units of different bins of one demux
\* run included.
C24_ExclusiveFiles == \A p \in InFlightPairs : ~SameOutput(p) /\ ~SameInput(p)

\* C24 (amended): no output file belongs to two units in flight, and no input
\* file belongs to two units in flight of the same bin; units of different
\* bins may read the same input file at the same time.
C24_ExclusiveWithinBin ==
    \A p \in InFlightPairs :
        /\ ~SameOutput(p)
        /\ d_pool[p[1]].bin = d_pool[p[2]].bin => ~SameInput(p)

\* two units of one bin, launched by its worker, are in flight on two input
\* files and two output files
C24_Witness ==
    \E p \in InFlightPairs :
        /\ d_pool[p[1]].bin = d_pool[p[2]].bin
        /\ ~SameInput(p) /\ ~SameOutput(p)

\* ------------------------------------------------------------------ get_chain
\* the analysis groups of a file and the attribute names (component names)
\* under which a group refers to another
ChainGroups == 1..NumGroups
Components == 1..NumComponents
QueriedGroup == 1

\* the groups a group refers to, and the groups get_chain can reach from g
RefersTo(g) == {h_attrs[g][k] : k \in Components} \ {None}
RECURSIVE ReachableFrom(_)
ReachableFrom(g) == {g} \cup UNION {ReachableFrom(t) : t \in RefersTo(g)}

\* the attributes of the groups g..NumGroups when a group refers to higher
\* numbers only
RECURSIVE AcyclicFrom(_)
AcyclicFrom(g) ==
    IF g > NumGroups THEN {<<>>}
    ELSE {<<a>> \o rest : a \in [Components -> {None} \cup ((g + 1)..NumGroups)],
                          rest \in AcyclicFrom(g + 1)}

\* a file whose analysis groups refer to each other without a cycle (the
\* groups are numbered so that a group refers to higher numbers only) and
\* the group the chain is asked for; its component name is the 'component'
\* attribute or the legacy name of the group
InitChain ==
    /\ NoRestButChain
    /\ h_attrs \in AcyclicFrom(1)
    /\ h_component \in Components
    /\ h_chain = <<>>
    /\ h_check = <<>>
    /\ h_pc = "call"

\* chain.remove(chain_entry)
Remove(chain, e) == SelectSeq(chain, LAMBDA x : x # e)
InChain(chain, e) == \E i \in 1..Len(chain) : chain[i] = e

\* (an entry seen again stays where it is)
MoveToEnd_keep(chain, e) == IF InChain(chain, e) THEN chain ELSE Append(chain, e)
\* if chain_entry in chain: chain.remove(chain_entry); chain.append(chain_entry)
MoveToEnd(chain, e) == Append(IF InChain(chain, e) THEN Remove(chain, e) ELSE chain, e)

\* for key, value in attr.items(), from attribute k on: the chain and the
\* groups to check after the loop over the attributes of group
RECURSIVE AttrLoop(_, _, _, _)
AttrLoop(group, k, chain, check) ==
    IF k > NumComponents THEN [chain |-> chain, check |-> check]
    ELSE LET value == h_attrs[group][k] IN
         IF value = None THEN AttrLoop(group, k + 1, chain, check)
         ELSE AttrLoop(group, k + 1, MoveToEnd(chain, <<k, value>>), Append(check, value))

\* get_chain(group_name) up to the while loop
get_chain ==
    /\ h_pc = "call"
    /\ h_chain' = <<<<h_component, QueriedGroup>>>>
    /\ h_check' = <<QueriedGroup>>
    /\ h_pc' = "loop"
    /\ UNCHANGED <<h_attrs, h_component>>
    /\ UNCHANGED not_chain_vars

\* one turn of the while loop: group = groups_to_check.popleft() and the loop
\* over its attributes
get_chain_loop ==
    /\ h_pc = "loop"
    /\ h_check # <<>>
    /\ LET res == AttrLoop(Head(h_check), 1, h_chain, Tail(h_check)) IN
        /\ h_chain' = res.chain
        /\ h_check' = res.check
    /\ UNCHANGED <<h_attrs, h_component, h_pc>>
    /\ UNCHANGED not_chain_vars

\* len(groups_to_check) is 0: return list(chain)
get_chain_return ==
    /\ h_pc = "loop"
    /\ h_check = <<>>
    /\ h_pc' = "returned"
    /\ UNCHANGED <<h_attrs, h_component, h_chain, h_check>>
    /\ UNCHANGED not_chain_vars

NextChain ==
    \/ get_chain
    \/ get_chain_loop
    \/ get_chain_return

SpecChain == InitChain /\ [][NextChain]_vars
\* the call runs on: a step that is possible is taken
SpecChainLive == SpecChain /\ WF_vars(NextChain)

\* the entries the chain is to hold: the queried group and every reference
\* made by a group that can be reached from it
ChainEntries ==
    {<<h_component, QueriedGroup>>} \cup
    {e \in Components \X ChainGroups :
        \E g \in ReachableFrom(QueriedGroup) : h_attrs[g][e[1]] = e[2]}
ChainReturned == h_pc = "returned"
\* every entry once
NoEntryTwice == \A i \in 1..Len(h_chain) : \A j \in 1..Len(h_chain) : h_chain[i] = h_chain[j] => i = j
\* a group is listed after every listed group that refers to it
AfterReferrers ==
    \A i \in 1..Len(h_chain) : \A j \in 1..Len(h_chain) :
        h_chain[j][2] \in RefersTo(h_chain[i][2]) => i < j
\* every group is referred to under one attribute name
OneNamePerGroup ==
    \A g \in ChainGroups : \A g2 \in ChainGroups : \A k \in Components : \A k2 \in Components :
        (h_attrs[g][k] # None /\ h_attrs[g][k] = h_attrs[g2][k2]) => k = k2

\* C26 as stated: for every acyclic graph of analysis groups get_chain
\* returns, and the chain starts with the queried group, holds every
\* reachable (component, group) entry exactly once and lists every group
\* after all groups that refer to it.
C26_ChainOrdered ==
    /\ <>ChainReturned
    /\ [](ChainReturned =>
            /\ h_chain[1] = <<h_component, QueriedGroup>>
            /\ {h_chain[i] : i \in 1..Len(h_chain)} = ChainEntries
            /\ NoEntryTwice
            /\ AfterReferrers)

\* C26 (amended): the same, for the files in which every group is referred to
\* under one attribute name; a group that two groups refer to under two names
\* has two entries, and the first of them may precede a group that refers to
\* it.
C26_ChainOrderedOneName ==
    /\ <>ChainReturned
    /\ [](ChainReturned =>
            /\ h_chain[1] = <<h_component, QueriedGroup>>
            /\ {h_chain[i] : i \in 1..Len(h_chain)} = ChainEntries
            /\ NoEntryTwice
            /\ OneNamePerGroup => AfterReferrers)

\* the queried group refers to groups 2 and 3 and group 2 refers to group 3
\* under the same name: the entry of group 3, seen again, was moved behind
\* the entry of group 2
C26_Witness ==
    /\ ChainReturned /\ OneNamePerGroup
    /\ RefersTo(1) = {2, 3} /\ RefersTo(2) = {3}
    /\ Len(h_chain) = 3 /\ h_chain[2][2] = 2 /\ h_chain[3][2] = 3

====
